---- MODULE Spec2Model ----
(***************************************************************************)
(* Qualification predicates and outreach sequencing of the conservative    *)
(* Twitter outreach strategy (class TwitterOutreachStrategy).              *)
(*                                                                         *)
(* JavaScript strings are sequences of one-character strings, so that      *)
(* toLowerCase and includes are computed and not assumed.  An absent       *)
(* property of a lead is a field missing from the record's domain.         *)
(***************************************************************************)
EXTENDS Integers, Sequences, FiniteSets, TLC

VARIABLES lead, apiQuota, now, ret, prev, client, outreachLog, day, calls,
          linkedin, campaign, effects

vars == <<lead, apiQuota, now, ret, prev, client, outreachLog, day, calls,
          linkedin, campaign, effects>>

\* the state of the Twitter DM client and of its surroundings
clientVars == <<client, outreachLog, day, calls>>

\* the LinkedIn client, the campaign of the dispatcher and the calls each
\* lead has received
dispatcherVars == <<linkedin, campaign, effects>>

---------------------------------------------------------------------------
(* Bounds of the exploration *)

\* number of one-day advances of the wall clock
MaxTicks == 1
\* largest remaining count of a quota snapshot entry
MaxRemaining == 1
\* blanks around a fragment of a text given to extractInsight
MaxPad == 1
\* distance of the fragment lengths from the thresholds of extractInsight
MaxDelta == 1
\* client calls issued within one calendar day
MaxCalls == 7
\* sendDirectMessage calls in flight at once
MaxInFlight == 6
\* leads of a campaign
MaxLeads == 2
\* LinkedIn follow-ups sent beyond the daily message limit
MaxExcess == 1

---------------------------------------------------------------------------
(* Strings *)

S_sarah_tech == <<"s", "a", "r", "a", "h", "_", "t", "e", "c", "h">>

S_alex_bot_follower == <<"a", "l", "e", "x", "_", "b", "o", "t", "_", "f", "o", "l", "l", "o", "w", "e", "r">>

S_bioSarah == <<"A", "I", " ", "P", "r", "o", "d", "u", "c", "t", " ", "M", "a", "n", "a", "g", "e", "r", " ", "a", "t", " ", "T", "e", "c", "h", "C", "o", "r", "p", ".", " ", "B", "u", "i", "l", "d", "i", "n", "g", " ", "t", "h", "e", " ", "f", "u", "t", "u", "r", "e", " ", "o", "f", " ", "a", "u", "t", "o", "m", "a", "t", "i", "o", "n", ".">>

S_bioAlex == <<"G", "e", "t", " ", "1", "0", "k", " ", "f", "o", "l", "l", "o", "w", "e", "r", "s", " ", "f", "a", "s", "t", "!", " ", "B", "u", "y", " ", "f", "o", "l", "l", "o", "w", "e", "r", "s", " ", "n", "o", "w", "!">>

S_AI == <<"A", "I">>

S_automation == <<"a", "u", "t", "o", "m", "a", "t", "i", "o", "n">>

S_SaaS == <<"S", "a", "a", "S">>

S_marketing == <<"m", "a", "r", "k", "e", "t", "i", "n", "g">>

S_sales == <<"s", "a", "l", "e", "s">>

S_growth == <<"g", "r", "o", "w", "t", "h">>

S_startup == <<"s", "t", "a", "r", "t", "u", "p">>

S_tech == <<"t", "e", "c", "h">>

S_spam == <<"s", "p", "a", "m">>

S_bot == <<"b", "o", "t">>

S_fake == <<"f", "a", "k", "e">>

S_buy_followers == <<"b", "u", "y", " ", "f", "o", "l", "l", "o", "w", "e", "r", "s">>

S_follow == <<"f", "o", "l", "l", "o", "w">>

S_followers == <<"f", "o", "l", "l", "o", "w", "e", "r", "s">>

S_chatbot == <<"c", "h", "a", "t", "b", "o", "t">>


UpperCase == <<"A", "B", "C", "D", "E", "F", "G", "H", "I", "J", "K", "L", "M", "N", "O", "P", "Q", "R", "S", "T", "U", "V", "W", "X", "Y", "Z">>

LowerCase == <<"a", "b", "c", "d", "e", "f", "g", "h", "i", "j", "k", "l", "m", "n", "o", "p", "q", "r", "s", "t", "u", "v", "w", "x", "y", "z">>

\* String.prototype.toLowerCase, one character
lowerChar(c) ==
  IF \E i \in 1..Len(UpperCase) : UpperCase[i] = c
  THEN LowerCase[CHOOSE i \in 1..Len(UpperCase) : UpperCase[i] = c]
  ELSE c

\* String.prototype.toLowerCase
toLowerCase(s) == [i \in 1..Len(s) |-> lowerChar(s[i])]

\* String.prototype.includes: sub occurs in s as a contiguous substring
includes(s, sub) ==
  \E i \in 0..(Len(s) - Len(sub)) : SubSeq(s, i + 1, i + Len(sub)) = sub

\* a property is present on a JavaScript object
Has(obj, f) == f \in DOMAIN obj

---------------------------------------------------------------------------
(* The strategy object *)

\* 24 * 60 * 60 * 1000, the milliseconds of one day
MsPerDay == 24 * 60 * 60 * 1000

\* this.targetingCriteria; minEngagement 0.5 is kept as the fraction 5/10
targetingCriteria ==
  [ minFollowers     |-> 100,
    maxFollowers     |-> 50000,
    minEngagement    |-> [num |-> 5, den |-> 10],
    recentActivity   |-> 7,
    relevantKeywords |-> <<S_AI, S_automation, S_SaaS, S_marketing, S_sales,
                           S_growth, S_startup, S_tech>>,
    excludeKeywords  |-> <<S_spam, S_bot, S_fake, S_buy_followers>> ]

\* the literal 1.0 of highEngagementRate, as a fraction
highEngagement == [num |-> 1, den |-> 1]

\* the literal 3 (days) of veryRecentActivity
veryRecentDays == 3

\* the literal list of perfectMatch
perfectKeywords == <<S_AI, S_automation, S_SaaS>>

\* obj.f > n, which is false when obj.f is undefined
greaterThan(obj, f, n) == Has(obj, f) /\ obj[f] > n

\* the number of truthy values of an object: Object.values(c).filter(Boolean).length
metCriteria(c) == Cardinality({k \in DOMAIN c : c[k]})

\* tweets.reduce((total, tweet) => total + (tweet.engagement?.likes || 0), 0)
RECURSIVE totalLikes(_)
totalLikes(tweets) ==
  IF Len(tweets) = 0 THEN 0
  ELSE (IF Has(Head(tweets), "engagement") /\ Has(Head(tweets).engagement, "likes")
        THEN Head(tweets).engagement.likes ELSE 0)
       + totalLikes(Tail(tweets))

\* lead.followerCount > 0 && (lead.recentTweets?.reduce(...) / lead.followerCount) >= min
\* (an absent recentTweets gives undefined / n = NaN, and NaN >= min is false)
engagementRateAtLeast(l, min) ==
  /\ Has(l, "followerCount")
  /\ l.followerCount > 0
  /\ Has(l, "recentTweets")
  /\ totalLikes(l.recentTweets) * min.den >= min.num * l.followerCount

\* the recency test written as "!lead.lastActivity || ...": absent counts as recent
activeWithin_absentIsActive(l, t, days) ==
  \/ ~Has(l, "lastActivity")
  \/ (t - l.lastActivity) < days * MsPerDay

\* lead.lastActivity && (new Date() - new Date(lead.lastActivity)) < days * 24*60*60*1000
activeWithin(l, t, days) ==
  /\ Has(l, "lastActivity")
  /\ (t - l.lastActivity) < days * MsPerDay

\* keywords.some(keyword => list.some(x => keyword.toLowerCase().includes(x.toLowerCase())))
someKeywordMatches(keywords, list) ==
  \E i \in 1..Len(keywords) : \E j \in 1..Len(list) :
     includes(toLowerCase(keywords[i]), toLowerCase(list[j]))

\* isWorthResearching with the spam screen applied to the username only
isWorthResearching_usernameOnly(l) ==
  /\ Has(l, "username") /\ Len(l.username) > 0
  /\ ~ \E k \in 1..Len(targetingCriteria.excludeKeywords) :
         includes(toLowerCase(l.username), targetingCriteria.excludeKeywords[k])
  /\ Has(l, "keywords")
  /\ someKeywordMatches(l.keywords, targetingCriteria.relevantKeywords)

\* isWorthResearching(lead)
isWorthResearching(l) ==
  LET basicCriteria ==
        [ hasUsername |-> Has(l, "username") /\ Len(l.username) > 0,
          noSpamKeywords |->
            ~ \E k \in 1..Len(targetingCriteria.excludeKeywords) :
                \/ Has(l, "username") /\
                   includes(toLowerCase(l.username), targetingCriteria.excludeKeywords[k])
                \/ Has(l, "bio") /\
                   includes(toLowerCase(l.bio), targetingCriteria.excludeKeywords[k]),
          hasRelevantKeywords |->
            Has(l, "keywords") /\
            someKeywordMatches(l.keywords, targetingCriteria.relevantKeywords) ]
  IN  \A k \in DOMAIN basicCriteria : basicCriteria[k]

\* isWorthEngaging with the threshold written as "more than 3"
isWorthEngaging_moreThan3(l, t) ==
  LET criteria ==
        [ hasRecentActivity |-> Has(l, "recentTweets") /\ Len(l.recentTweets) > 0,
          goodEngagement |->
            Has(l, "recentTweets") /\
            \E i \in 1..Len(l.recentTweets) :
               /\ Has(l.recentTweets[i], "engagement")
               /\ \/ greaterThan(l.recentTweets[i].engagement, "likes", 3)
                  \/ greaterThan(l.recentTweets[i].engagement, "comments", 0),
          relevantContent |-> Has(l, "keywords") /\ Len(l.keywords) > 0,
          activeUser |-> activeWithin(l, t, targetingCriteria.recentActivity),
          reasonableFollowerCount |->
            /\ Has(l, "followerCount")
            /\ l.followerCount >= targetingCriteria.minFollowers
            /\ l.followerCount <= targetingCriteria.maxFollowers,
          goodEngagementRate |->
            engagementRateAtLeast(l, targetingCriteria.minEngagement) ]
  IN  metCriteria(criteria) > 3

\* isWorthEngaging(lead), evaluated when the wall clock reads t
isWorthEngaging(l, t) ==
  LET criteria ==
        [ hasRecentActivity |-> Has(l, "recentTweets") /\ Len(l.recentTweets) > 0,
          goodEngagement |->
            Has(l, "recentTweets") /\
            \E i \in 1..Len(l.recentTweets) :
               /\ Has(l.recentTweets[i], "engagement")
               /\ \/ greaterThan(l.recentTweets[i].engagement, "likes", 3)
                  \/ greaterThan(l.recentTweets[i].engagement, "comments", 0),
          relevantContent |-> Has(l, "keywords") /\ Len(l.keywords) > 0,
          activeUser |-> activeWithin(l, t, targetingCriteria.recentActivity),
          reasonableFollowerCount |->
            /\ Has(l, "followerCount")
            /\ l.followerCount >= targetingCriteria.minFollowers
            /\ l.followerCount <= targetingCriteria.maxFollowers,
          goodEngagementRate |->
            engagementRateAtLeast(l, targetingCriteria.minEngagement) ]
  IN  metCriteria(criteria) >= 3

\* isHighlyQualified returning early for a lead that is not worth engaging
isHighlyQualified_afterEngaging(l, t) ==
  /\ isWorthEngaging(l, t)
  /\ metCriteria(
        [ hasEngagedWithUs |-> Has(l, "hasEngagedWithUs") /\ l.hasEngagedWithUs,
          mutualConnections |->
            Has(l, "mutualConnections") /\ Len(l.mutualConnections) > 0,
          highEngagementRate |-> engagementRateAtLeast(l, highEngagement),
          veryRecentActivity |-> activeWithin(l, t, veryRecentDays),
          perfectMatch |->
            Has(l, "keywords") /\ someKeywordMatches(l.keywords, perfectKeywords) ]) >= 2

\* isHighlyQualified with the threshold written as "more than 2"
isHighlyQualified_moreThan2(l, t) ==
  LET strictCriteria ==
        [ hasEngagedWithUs |-> Has(l, "hasEngagedWithUs") /\ l.hasEngagedWithUs,
          mutualConnections |->
            Has(l, "mutualConnections") /\ Len(l.mutualConnections) > 0,
          highEngagementRate |-> engagementRateAtLeast(l, highEngagement),
          veryRecentActivity |-> activeWithin(l, t, veryRecentDays),
          perfectMatch |->
            Has(l, "keywords") /\ someKeywordMatches(l.keywords, perfectKeywords) ]
  IN  metCriteria(strictCriteria) > 2

\* isHighlyQualified(lead), evaluated when the wall clock reads t
isHighlyQualified(l, t) ==
  LET strictCriteria ==
        [ hasEngagedWithUs |-> Has(l, "hasEngagedWithUs") /\ l.hasEngagedWithUs,
          mutualConnections |->
            Has(l, "mutualConnections") /\ Len(l.mutualConnections) > 0,
          highEngagementRate |-> engagementRateAtLeast(l, highEngagement),
          veryRecentActivity |-> activeWithin(l, t, veryRecentDays),
          perfectMatch |->
            Has(l, "keywords") /\ someKeywordMatches(l.keywords, perfectKeywords) ]
  IN  metCriteria(strictCriteria) >= 2

\* the four step objects getOutreachSequence pushes
researchStep ==
  [action |-> "research", priority |-> 1,
   reason |-> "Gather data for qualification", apiCost |-> "low"]

followStep ==
  [action |-> "follow", priority |-> 2,
   reason |-> "Build relationship first (conservative approach)", apiCost |-> "medium"]

\* the like step pushed with the rank of the follow step
likeStep_rankOfFollow ==
  [action |-> "like", priority |-> 2,
   reason |-> "Show appreciation for recent content", apiCost |-> "medium"]

likeStep ==
  [action |-> "like", priority |-> 3,
   reason |-> "Show appreciation for recent content", apiCost |-> "medium"]

dmSendStep ==
  [action |-> "dmSend", priority |-> 4,
   reason |-> "Direct outreach only to highly qualified leads", apiCost |-> "high"]

\* getOutreachSequence without the "sequence.length >= 2" gate of the DM step
getOutreachSequence_dmUngated(l, q, t) ==
  LET step1 ==
        IF q.userLookup.remaining > 0 /\ isWorthResearching(l)
        THEN <<researchStep>> ELSE <<>>
      step2 ==
        IF q.follow.remaining > 0 /\ q.like.remaining > 0 /\ isWorthEngaging(l, t)
        THEN IF Has(l, "recentTweets") /\ Len(l.recentTweets) > 0 /\ q.like.remaining > 0
             THEN step1 \o <<followStep, likeStep>>
             ELSE Append(step1, followStep)
        ELSE step1
  IN  IF q.dmSend.remaining > 0 /\ isHighlyQualified(l, t)
      THEN Append(step2, dmSendStep) ELSE step2

\* getOutreachSequence without the dmSend quota test of the DM step
getOutreachSequence_dmQuotaUnread(l, q, t) ==
  LET step1 ==
        IF q.userLookup.remaining > 0 /\ isWorthResearching(l)
        THEN <<researchStep>> ELSE <<>>
      step2 ==
        IF q.follow.remaining > 0 /\ q.like.remaining > 0 /\ isWorthEngaging(l, t)
        THEN IF Has(l, "recentTweets") /\ Len(l.recentTweets) > 0 /\ q.like.remaining > 0
             THEN step1 \o <<followStep, likeStep>>
             ELSE Append(step1, followStep)
        ELSE step1
  IN  IF isHighlyQualified(l, t) /\ Len(step2) >= 2
      THEN Append(step2, dmSendStep) ELSE step2

\* getOutreachSequence whose follow step is gated by the follow quota alone
getOutreachSequence_followWithoutLikeQuota(l, q, t) ==
  LET step1 ==
        IF q.userLookup.remaining > 0 /\ isWorthResearching(l)
        THEN <<researchStep>> ELSE <<>>
      step2 ==
        IF q.follow.remaining > 0 /\ isWorthEngaging(l, t)
        THEN IF Has(l, "recentTweets") /\ Len(l.recentTweets) > 0 /\ q.like.remaining > 0
             THEN step1 \o <<followStep, likeStep>>
             ELSE Append(step1, followStep)
        ELSE step1
  IN  IF q.dmSend.remaining > 0 /\ isHighlyQualified(l, t) /\ Len(step2) >= 2
      THEN Append(step2, dmSendStep) ELSE step2

\* getOutreachSequence whose engagement steps are not gated by isWorthEngaging
getOutreachSequence_engageUnqualified(l, q, t) ==
  LET step1 ==
        IF q.userLookup.remaining > 0 /\ isWorthResearching(l)
        THEN <<researchStep>> ELSE <<>>
      step2 ==
        IF q.follow.remaining > 0 /\ q.like.remaining > 0 /\ isWorthResearching(l)
        THEN IF Has(l, "recentTweets") /\ Len(l.recentTweets) > 0 /\ q.like.remaining > 0
             THEN step1 \o <<followStep, likeStep>>
             ELSE Append(step1, followStep)
        ELSE step1
  IN  IF q.dmSend.remaining > 0 /\ isHighlyQualified(l, t) /\ Len(step2) >= 2
      THEN Append(step2, dmSendStep) ELSE step2

\* getOutreachSequence whose follow and like steps are gated one by one, each
\* by its own quota
getOutreachSequence_separateGates(l, q, t) ==
  LET step1 ==
        IF q.userLookup.remaining > 0 /\ isWorthResearching(l)
        THEN <<researchStep>> ELSE <<>>
      followed ==
        IF q.follow.remaining > 0 /\ isWorthEngaging(l, t)
        THEN Append(step1, followStep) ELSE step1
      step2 ==
        IF /\ q.like.remaining > 0 /\ isWorthEngaging(l, t)
           /\ Has(l, "recentTweets") /\ Len(l.recentTweets) > 0
        THEN Append(followed, likeStep) ELSE followed
      sequence ==
        IF q.dmSend.remaining > 0 /\ isHighlyQualified(l, t) /\ Len(step2) >= 2
        THEN Append(step2, dmSendStep) ELSE step2
  IN  sequence

\* getOutreachSequence(lead, apiQuota), evaluated when the wall clock reads t
getOutreachSequence(l, q, t) ==
  LET step1 ==
        IF q.userLookup.remaining > 0 /\ isWorthResearching(l)
        THEN <<researchStep>> ELSE <<>>
      step2 ==
        IF q.follow.remaining > 0 /\ q.like.remaining > 0 /\ isWorthEngaging(l, t)
        THEN IF Has(l, "recentTweets") /\ Len(l.recentTweets) > 0 /\ q.like.remaining > 0
             THEN step1 \o <<followStep, likeStep>>
             ELSE Append(step1, followStep)
        ELSE step1
      sequence ==
        IF q.dmSend.remaining > 0 /\ isHighlyQualified(l, t) /\ Len(step2) >= 2
        THEN Append(step2, dmSendStep) ELSE step2
  IN  sequence

---------------------------------------------------------------------------
(* Message rendering: generateEngagementMessage, generateDMMessage *)

\* an emoji of a template or a tweet, kept as one element of the string
Emoji == "U+1F44B"

T_engagement_follow ==
  <<"F", "o", "l", "l", "o", "w", "i", "n", "g", " ", "f", "o", "r", " ",
    "y", "o", "u", "r", " ", "i", "n", "s", "i", "g", "h", "t", "s", " ",
    "o", "n", " ", "{", "{", "t", "o", "p", "i", "c", "}", "}", "!", " ", Emoji>>

T_engagement_like ==
  <<Emoji>>

T_engagement_reply ==
  <<"{", "{", "i", "n", "s", "i", "g", "h", "t", "}", "}", " ", "-", " ",
    "r", "e", "a", "l", "l", "y", " ", "r", "e", "s", "o", "n", "a", "t",
    "e", "s", " ", "w", "i", "t", "h", " ", "m", "y", " ", "e", "x", "p",
    "e", "r", "i", "e", "n", "c", "e", " ", "i", "n", " ", "{", "{", "f",
    "i", "e", "l", "d", "}", "}", ".">>

T_engagement_retweet ==
  <<"R", "T", " ", "@", "{", "{", "u", "s", "e", "r", "n", "a", "m", "e",
    "}", "}", ":", " ", "{", "{", "t", "w", "e", "e", "t", "T", "e", "x",
    "t", "}", "}", " ", "/", "/", " ", "{", "{", "c", "o", "m", "m", "e",
    "n", "t", "}", "}">>

T_dm_initial ==
  <<"H", "i", " ", "{", "{", "u", "s", "e", "r", "n", "a", "m", "e", "}",
    "}", "!", " ", "L", "o", "v", "e", "d", " ", "y", "o", "u", "r", " ",
    "t", "h", "r", "e", "a", "d", " ", "a", "b", "o", "u", "t", " ", "{",
    "{", "t", "h", "r", "e", "a", "d", "T", "o", "p", "i", "c", "}", "}",
    ".", " ", "Y", "o", "u", "r", " ", "p", "o", "i", "n", "t", " ", "a",
    "b", "o", "u", "t", " ", "{", "{", "s", "p", "e", "c", "i", "f", "i",
    "c", "I", "n", "s", "i", "g", "h", "t", "}", "}", " ", "r", "e", "a",
    "l", "l", "y", " ", "r", "e", "s", "o", "n", "a", "t", "e", "d", ".",
    " ", "I", "'", "m", " ", "b", "u", "i", "l", "d", "i", "n", "g", " ",
    "{", "{", "s", "o", "l", "u", "t", "i", "o", "n", "}", "}", " ", "a",
    "n", "d", " ", "t", "h", "i", "n", "k", " ", "y", "o", "u", " ", "m",
    "i", "g", "h", "t", " ", "f", "i", "n", "d", " ", "{", "{", "v", "a",
    "l", "u", "e", "}", "}", " ", "i", "n", "t", "e", "r", "e", "s", "t",
    "i", "n", "g", ".", " ", "W", "o", "u", "l", "d", " ", "y", "o", "u",
    " ", "b", "e", " ", "o", "p", "e", "n", " ", "t", "o", " ", "a", " ",
    "q", "u", "i", "c", "k", " ", "c", "h", "a", "t", "?">>

T_dm_followUp ==
  <<"H", "i", " ", "{", "{", "u", "s", "e", "r", "n", "a", "m", "e", "}",
    "}", "!", " ", "J", "u", "s", "t", " ", "w", "a", "n", "t", "e", "d",
    " ", "t", "o", " ", "f", "o", "l", "l", "o", "w", " ", "u", "p", " ",
    "o", "n", " ", "m", "y", " ", "p", "r", "e", "v", "i", "o", "u", "s",
    " ", "m", "e", "s", "s", "a", "g", "e", " ", "a", "b", "o", "u", "t",
    " ", "{", "{", "t", "o", "p", "i", "c", "}", "}", ".", " ", "N", "o",
    " ", "p", "r", "e", "s", "s", "u", "r", "e", ",", " ", "b", "u", "t",
    " ", "I", "'", "d", " ", "l", "o", "v", "e", " ", "t", "o", " ", "s",
    "h", "a", "r", "e", " ", "s", "o", "m", "e", " ", "i", "n", "s", "i",
    "g", "h", "t", "s", " ", "t", "h", "a", "t", " ", "m", "i", "g", "h",
    "t", " ", "b", "e", " ", "v", "a", "l", "u", "a", "b", "l", "e", " ",
    "f", "o", "r", " ", "y", "o", "u", "r", " ", "w", "o", "r", "k", ".",
    " ", "C", "h", "e", "e", "r", "s", "!">>

T_dm_warm ==
  <<"H", "i", " ", "{", "{", "u", "s", "e", "r", "n", "a", "m", "e", "}",
    "}", "!", " ", "T", "h", "a", "n", "k", "s", " ", "f", "o", "r", " ",
    "t", "h", "e", " ", "f", "o", "l", "l", "o", "w", " ", "b", "a", "c",
    "k", ".", " ", "I", " ", "n", "o", "t", "i", "c", "e", "d", " ", "y",
    "o", "u", "r", " ", "r", "e", "c", "e", "n", "t", " ", "p", "o", "s",
    "t", " ", "a", "b", "o", "u", "t", " ", "{", "{", "r", "e", "c", "e",
    "n", "t", "T", "o", "p", "i", "c", "}", "}", " ", "-", " ", "r", "e",
    "a", "l", "l", "y", " ", "i", "n", "s", "i", "g", "h", "t", "f", "u",
    "l", "!", " ", "I", "'", "m", " ", "w", "o", "r", "k", "i", "n", "g",
    " ", "o", "n", " ", "s", "i", "m", "i", "l", "a", "r", " ", "{", "{",
    "s", "o", "l", "u", "t", "i", "o", "n", "}", "}", " ", "i", "n", "i",
    "t", "i", "a", "t", "i", "v", "e", "s", " ", "a", "n", "d", " ", "w",
    "o", "u", "l", "d", " ", "l", "o", "v", "e", " ", "t", "o", " ", "c",
    "o", "n", "n", "e", "c", "t", ".", " ", "B", "e", "s", "t", " ", "r",
    "e", "g", "a", "r", "d", "s", "!">>

P_topic ==
  <<"{", "{", "t", "o", "p", "i", "c", "}", "}">>

P_insight ==
  <<"{", "{", "i", "n", "s", "i", "g", "h", "t", "}", "}">>

P_field ==
  <<"{", "{", "f", "i", "e", "l", "d", "}", "}">>

P_username ==
  <<"{", "{", "u", "s", "e", "r", "n", "a", "m", "e", "}", "}">>

P_tweetText ==
  <<"{", "{", "t", "w", "e", "e", "t", "T", "e", "x", "t", "}", "}">>

P_comment ==
  <<"{", "{", "c", "o", "m", "m", "e", "n", "t", "}", "}">>

P_threadTopic ==
  <<"{", "{", "t", "h", "r", "e", "a", "d", "T", "o", "p", "i", "c", "}", "}">>

P_specificInsight ==
  <<"{", "{", "s", "p", "e", "c", "i", "f", "i", "c", "I", "n", "s", "i",
    "g", "h", "t", "}", "}">>

P_solution ==
  <<"{", "{", "s", "o", "l", "u", "t", "i", "o", "n", "}", "}">>

P_value ==
  <<"{", "{", "v", "a", "l", "u", "e", "}", "}">>

P_recentTopic ==
  <<"{", "{", "r", "e", "c", "e", "n", "t", "T", "o", "p", "i", "c", "}", "}">>

S_product ==
  <<"p", "r", "o", "d", "u", "c", "t">>

S_technology ==
  <<"t", "e", "c", "h", "n", "o", "l", "o", "g", "y">>

S_startups ==
  <<"s", "t", "a", "r", "t", "u", "p", "s">>

S_tech_trends ==
  <<"t", "e", "c", "h", " ", "t", "r", "e", "n", "d", "s">>

S_your_perspective ==
  <<"y", "o", "u", "r", " ", "p", "e", "r", "s", "p", "e", "c", "t", "i",
    "v", "e">>

S_AI_automation_tools ==
  <<"A", "I", " ", "a", "u", "t", "o", "m", "a", "t", "i", "o", "n", " ",
    "t", "o", "o", "l", "s">>

S_some_insights ==
  <<"s", "o", "m", "e", " ", "i", "n", "s", "i", "g", "h", "t", "s">>

S_ellipsis ==
  <<".", ".", ".">>

S_dot ==
  <<".">>

T_launch ==
  <<"J", "u", "s", "t", " ", "l", "a", "u", "n", "c", "h", "e", "d", " ",
    "o", "u", "r", " ", "n", "e", "w", " ", "A", "I", " ", "a", "u", "t",
    "o", "m", "a", "t", "i", "o", "n", " ", "t", "o", "o", "l", "!", " ", Emoji>>

T_short ==
  <<"N", "i", "c", "e", " ", "o", "n", "e", ".", " ", "A", "g", "r", "e",
    "e", "d", ".">>

\* this.engagementTemplates
engagementTemplates ==
  [follow |-> T_engagement_follow, like |-> T_engagement_like,
   reply |-> T_engagement_reply, retweet |-> T_engagement_retweet]

\* this.dmTemplates
dmTemplates ==
  [initial |-> T_dm_initial, followUp |-> T_dm_followUp, warm |-> T_dm_warm]

\* property names every object inherits from Object.prototype
ObjectPrototypeKeys == {"constructor", "toString"}

\* templates[id]: an own property is the template string, an inherited one
\* is a function, anything else is undefined
lookup(templates, id) ==
  IF id \in DOMAIN templates THEN [kind |-> "string", value |-> templates[id]]
  ELSE IF id \in ObjectPrototypeKeys THEN [kind |-> "function", value |-> <<>>]
  ELSE [kind |-> "undefined", value |-> <<>>]

\* String.prototype.indexOf, counted from 1; 0 when pat does not occur
indexOf(s, pat) ==
  IF includes(s, pat)
  THEN 1 + CHOOSE i \in 0..(Len(s) - Len(pat)) :
             /\ SubSeq(s, i + 1, i + Len(pat)) = pat
             /\ \A j \in 0..(i - 1) : SubSeq(s, j + 1, j + Len(pat)) # pat
  ELSE 0

\* s.replace(pat, v) with a string pattern: the first occurrence only
\* (v holds no "$" replacement pattern)
replaceFirst(s, pat, v) ==
  LET i == indexOf(s, pat) IN
  IF i = 0 THEN s
  ELSE SubSeq(s, 1, i - 1) \o v \o SubSeq(s, i + Len(pat), Len(s))

\* s.replace(/pat/g, v): every occurrence, the inserted text is not rescanned
RECURSIVE replaceAll(_, _, _)
replaceAll(s, pat, v) ==
  LET i == indexOf(s, pat) IN
  IF i = 0 THEN s
  ELSE SubSeq(s, 1, i - 1) \o v
       \o replaceAll(SubSeq(s, i + Len(pat), Len(s)), pat, v)

\* the characters String.prototype.trim removes
Whitespace == {" ", "\t", "\n"}

\* String.prototype.trim
RECURSIVE trim(_)
trim(s) ==
  IF Len(s) = 0 THEN s
  ELSE IF s[1] \in Whitespace THEN trim(Tail(s))
  ELSE IF s[Len(s)] \in Whitespace THEN trim(SubSeq(s, 1, Len(s) - 1))
  ELSE s

\* text.split('.'): the fragments between the dots, empty ones included
RECURSIVE split(_, _)
split(s, sep) ==
  LET i == indexOf(s, sep) IN
  IF i = 0 THEN <<s>>
  ELSE <<SubSeq(s, 1, i - 1)>> \o split(SubSeq(s, i + Len(sep), Len(s)), sep)

\* s.substring(0, n)
substring0(s, n) == SubSeq(s, 1, IF Len(s) < n THEN Len(s) ELSE n)

\* the fragment length extractInsight asks for, and the length it cuts to
minSentenceLength == 10

maxInsightLength == 50

\* extractInsight keeping fragments of 10 characters as well
extractInsight_atLeast10(text) ==
  LET sentences == SelectSeq(split(text, S_dot),
                             LAMBDA s : Len(trim(s)) >= minSentenceLength)
  IN  IF Len(sentences) > 0
      THEN substring0(trim(sentences[1]), maxInsightLength) \o S_ellipsis
      ELSE S_your_perspective

\* extractInsight(text)
extractInsight(text) ==
  LET sentences == SelectSeq(split(text, S_dot),
                             LAMBDA s : Len(trim(s)) > minSentenceLength)
  IN  IF Len(sentences) > 0
      THEN substring0(trim(sentences[1]), maxInsightLength) \o S_ellipsis
      ELSE S_your_perspective

\* the topics extractTopicFromTweet scans, in order
topics ==
  <<S_AI, S_automation, S_SaaS, S_marketing, S_sales, S_product, S_growth,
    S_technology, S_startups>>

\* extractTopicFromTweet(content)
extractTopicFromTweet(content) ==
  IF \E i \in 1..Len(topics) : includes(toLowerCase(content), toLowerCase(topics[i]))
  THEN topics[CHOOSE i \in 1..Len(topics) :
                /\ includes(toLowerCase(content), toLowerCase(topics[i]))
                /\ \A j \in 1..(i - 1) :
                      ~includes(toLowerCase(content), toLowerCase(topics[j]))]
  ELSE S_tech_trends

\* a property holds a non-empty string or array (a truthy one, for strings)
NonEmpty(obj, f) == Has(obj, f) /\ Len(obj[f]) > 0

\* what a renderer hands back: a string, null, a function, or a raised TypeError
Returned(kind, value) == [kind |-> kind, value |-> value]

\* generateEngagementMessage that fills {{field}} from the first keyword
generateEngagementMessage_fieldFromKeyword(action, l, tweetData) ==
  LET template == lookup(engagementTemplates, action)
      touched == NonEmpty(l, "keywords") \/ NonEmpty(tweetData, "text")
      m1 == IF NonEmpty(l, "keywords")
            THEN replaceFirst(template.value, P_topic, l.keywords[1])
            ELSE template.value
      m2 == IF NonEmpty(tweetData, "text")
            THEN replaceFirst(m1, P_insight, extractInsight(tweetData.text))
            ELSE m1
      m3 == IF NonEmpty(l, "keywords")
            THEN replaceFirst(m2, P_field, l.keywords[1])
            ELSE m2
  IN  IF template.kind = "undefined" THEN Returned("null", <<>>)
      ELSE IF template.kind = "function"
           THEN IF touched THEN Returned("TypeError", <<>>)
                ELSE Returned("function", <<>>)
      ELSE Returned("string", m3)

\* generateEngagementMessage(action, lead, tweetData)
generateEngagementMessage(action, l, tweetData) ==
  LET template == lookup(engagementTemplates, action)
      \* a function has no replace method: the first replace raises
      touched == \/ NonEmpty(l, "keywords")
                 \/ NonEmpty(tweetData, "text")
                 \/ NonEmpty(l, "industry")
      m1 == IF NonEmpty(l, "keywords")
            THEN replaceFirst(template.value, P_topic, l.keywords[1])
            ELSE template.value
      m2 == IF NonEmpty(tweetData, "text")
            THEN replaceFirst(m1, P_insight, extractInsight(tweetData.text))
            ELSE m1
      m3 == IF NonEmpty(l, "industry")
            THEN replaceFirst(m2, P_field, l.industry)
            ELSE m2
  IN  IF template.kind = "undefined" THEN Returned("null", <<>>)
      ELSE IF template.kind = "function"
           THEN IF touched THEN Returned("TypeError", <<>>)
                ELSE Returned("function", <<>>)
      ELSE Returned("string", m3)

\* generateDMMessage falling back to the extractors' defaults without a post
generateDMMessage_fallbacks(type, l, tweetData) ==
  LET template == lookup(dmTemplates, type)
      m1 == IF NonEmpty(l, "username")
            THEN replaceAll(template.value, P_username, l.username)
            ELSE template.value
      m2 == IF NonEmpty(tweetData, "text")
            THEN replaceFirst(
                   replaceFirst(m1, P_threadTopic, extractTopicFromTweet(tweetData.text)),
                   P_specificInsight, extractInsight(tweetData.text))
            ELSE replaceFirst(replaceFirst(m1, P_threadTopic, S_tech_trends),
                              P_specificInsight, S_your_perspective)
      m3 == IF NonEmpty(l, "keywords")
            THEN replaceFirst(replaceFirst(m2, P_topic, l.keywords[1]),
                              P_field, l.keywords[1])
            ELSE m2
      m4 == replaceFirst(replaceFirst(m3, P_solution, S_AI_automation_tools),
                         P_value, S_some_insights)
  IN  IF template.kind = "undefined" THEN Returned("null", <<>>)
      ELSE IF template.kind = "function" THEN Returned("TypeError", <<>>)
      ELSE Returned("string", m4)

\* generateDMMessage returning the empty string for a template it does not know
generateDMMessage_emptyForUnknown(type, l, tweetData) ==
  LET template == lookup(dmTemplates, type)
      m1 == IF NonEmpty(l, "username")
            THEN replaceAll(template.value, P_username, l.username)
            ELSE template.value
      m2 == IF NonEmpty(tweetData, "text")
            THEN replaceFirst(
                   replaceFirst(m1, P_threadTopic, extractTopicFromTweet(tweetData.text)),
                   P_specificInsight, extractInsight(tweetData.text))
            ELSE m1
      m3 == IF NonEmpty(l, "keywords")
            THEN replaceFirst(replaceFirst(m2, P_topic, l.keywords[1]),
                              P_field, l.keywords[1])
            ELSE m2
      m4 == replaceFirst(replaceFirst(m3, P_solution, S_AI_automation_tools),
                         P_value, S_some_insights)
  IN  IF template.kind = "string" THEN Returned("string", m4)
      ELSE Returned("string", <<>>)

\* generateDMMessage(type, lead, tweetData)
generateDMMessage(type, l, tweetData) ==
  LET template == lookup(dmTemplates, type)
      m1 == IF NonEmpty(l, "username")
            THEN replaceAll(template.value, P_username, l.username)
            ELSE template.value
      m2 == IF NonEmpty(tweetData, "text")
            THEN replaceFirst(
                   replaceFirst(m1, P_threadTopic, extractTopicFromTweet(tweetData.text)),
                   P_specificInsight, extractInsight(tweetData.text))
            ELSE m1
      m3 == IF NonEmpty(l, "keywords")
            THEN replaceFirst(replaceFirst(m2, P_topic, l.keywords[1]),
                              P_field, l.keywords[1])
            ELSE m2
      m4 == replaceFirst(replaceFirst(m3, P_solution, S_AI_automation_tools),
                         P_value, S_some_insights)
  IN  IF template.kind = "undefined" THEN Returned("null", <<>>)
      \* a function has no replace method: the replace of {{solution}} raises
      ELSE IF template.kind = "function" THEN Returned("TypeError", <<>>)
      ELSE Returned("string", m4)

---------------------------------------------------------------------------
(* Leads and quota snapshots handed to the strategy *)

\* the wall clock when the leads are built (Date.now() of the harness)
Now0 == 10 * MsPerDay

\* an object without properties
NoProps == [x \in {} |-> 0]

\* testLeads[0].recentTweets, engagement only
tweetsSarah == <<[engagement |-> [likes |-> 45, comments |-> 8]],
                 [engagement |-> [likes |-> 32, comments |-> 5]]>>

\* the single post of the sarah_tech scenario
tweetsOne45 == <<[engagement |-> [likes |-> 45, comments |-> 8]]>>

\* testLeads[2].recentTweets, engagement only
tweetsAlex == <<[engagement |-> [likes |-> 2, comments |-> 0]]>>

\* keyword lists of the test leads, and one whose tag holds a spam marker
keywordsSarah == <<S_AI, S_automation, S_SaaS>>

keywordsMike == <<S_marketing, S_growth, S_startup>>

keywordsAlex == <<S_follow, S_followers>>

keywordsChatbot == <<S_chatbot, S_growth>>

\* leads for the predicates: every combination of the field values below
QualLeads ==
  { u @@ b @@ k @@ tw @@ f @@ a @@ e @@ m :
      u  \in {[username |-> s] : s \in {S_sarah_tech, S_alex_bot_follower, <<>>}},
      b  \in {NoProps} \cup {[bio |-> s] : s \in {S_bioSarah, S_bioAlex}},
      k  \in {[keywords |-> s] :
                s \in {<<>>, keywordsSarah, keywordsMike, keywordsAlex, keywordsChatbot}},
      tw \in {[recentTweets |-> s] : s \in {<<>>, tweetsSarah, tweetsOne45, tweetsAlex}},
      f  \in {[followerCount |-> n] : n \in {0, 60, 500, 2500, 50001}},
      a  \in {[lastActivity |-> Now0 - d * MsPerDay] : d \in {2, 5, 6}},
      e  \in {[hasEngagedWithUs |-> x] : x \in BOOLEAN},
      m  \in {[mutualConnections |-> s] : s \in {<<>>, <<"john_doe", "jane_smith">>}} }

\* leads for the sequence builder: the test leads Sarah and Alex, field by field
SeqLeads ==
  { u @@ b @@ k @@ tw @@ f @@ a @@ e @@ m :
      u  \in {[username |-> s] : s \in {S_sarah_tech, S_alex_bot_follower}},
      b  \in {[bio |-> s] : s \in {S_bioSarah, S_bioAlex}},
      k  \in {[keywords |-> s] : s \in {keywordsSarah, keywordsAlex}},
      tw \in {[recentTweets |-> s] : s \in {<<>>, tweetsOne45, tweetsAlex}},
      f  \in {[followerCount |-> n] : n \in {60, 500, 2500}},
      a  \in {[lastActivity |-> Now0 - d * MsPerDay] : d \in {2, 5}},
      e  \in {[hasEngagedWithUs |-> x] : x \in BOOLEAN},
      m  \in {[mutualConnections |-> s] : s \in {<<>>, <<"john_doe", "jane_smith">>}} }

\* leads that lack any subset of the fields the strategy reads; a post may lack
\* its engagement object, or the counts inside it
AbsentLeads ==
  { u @@ b @@ k @@ tw @@ f @@ a @@ e @@ m :
      u  \in {NoProps, [username |-> S_sarah_tech]},
      b  \in {NoProps, [bio |-> S_bioSarah], [bio |-> S_bioAlex]},
      k  \in {NoProps, [keywords |-> keywordsSarah]},
      tw \in {NoProps} \cup {[recentTweets |-> s] :
                s \in {tweetsSarah, <<NoProps>>, <<[engagement |-> NoProps]>>}},
      f  \in {NoProps, [followerCount |-> 60]},
      a  \in {NoProps, [lastActivity |-> Now0 - 2 * MsPerDay]},
      e  \in {NoProps, [hasEngagedWithUs |-> TRUE]},
      m  \in {NoProps, [mutualConnections |-> <<"john_doe", "jane_smith">>]} }

\* leads handed to the renderers: handle, keywords and industry present or
\* not, and no recent post, or one whose text the caller passes as tweetData
RenderLeads ==
  { u @@ k @@ i @@ tw :
      u  \in {NoProps, [username |-> S_sarah_tech]},
      k  \in {NoProps, [keywords |-> <<>>], [keywords |-> keywordsSarah]},
      i  \in {NoProps, [industry |-> S_technology]},
      tw \in {NoProps} \cup {[recentTweets |-> s] :
                s \in {<<>>, <<[text |-> T_launch]>>, <<[text |-> T_short]>>}} }

\* tweetData = null (or an object without text)
noTweetData == NoProps

\* the tweetData a caller can pass for a lead: null, or its first recent post
TweetDataOf(l) ==
  {noTweetData} \cup
  (IF NonEmpty(l, "recentTweets") THEN {l.recentTweets[1]} ELSE {})

\* template ids passed to generateDMMessage
DMTypes == {"initial", "followUp", "warm", "nope", "constructor"}

\* template ids passed to generateEngagementMessage
EngagementActions == {"follow", "like", "reply", "retweet", "nope", "constructor"}

\* n copies of the character c
Repeat(c, n) == [i \in 1..n |-> c]

\* fragment lengths around the two thresholds of extractInsight
FragmentLengths ==
  {0} \cup {minSentenceLength + d : d \in (0 - MaxDelta)..MaxDelta}
      \cup {maxInsightLength + d : d \in (0 - MaxDelta)..MaxDelta}

\* texts of one or two fragments: blanks, letters, blanks, a dot, letters
InsightTexts ==
  { [padLeft |-> a, first |-> n, padRight |-> b, second |-> m] :
      a \in 0..MaxPad, n \in FragmentLengths, b \in 0..MaxPad,
      m \in FragmentLengths }

\* the characters of such a text
TextOf(g) ==
  Repeat(" ", g.padLeft) \o Repeat("a", g.first) \o Repeat(" ", g.padRight)
  \o S_dot \o Repeat("b", g.second)

\* the action kinds of a quota snapshot that getOutreachSequence reads
QuotaKinds == {"userLookup", "follow", "like", "dmSend"}

\* quota snapshots: {kind: {remaining: n}}
QuotaSnapshots ==
  [QuotaKinds -> {[remaining |-> n] : n \in 0..MaxRemaining}]

\* mockQuota of the test harness
mockQuota ==
  [userLookup |-> [remaining |-> 25], follow |-> [remaining |-> 12],
   like |-> [remaining |-> 20], dmSend |-> [remaining |-> 4]]

\* no call has returned yet
NoCall == [op |-> "none", at |-> 0, value |-> FALSE]

---------------------------------------------------------------------------
(* The Twitter DM client (class TwitterDMClient) *)

S_get_followers == <<"g", "e", "t", " ", "f", "o", "l", "l", "o", "w", "e", "r", "s">>

S_follow_back == <<"f", "o", "l", "l", "o", "w", " ", "b", "a", "c", "k">>

\* this.dailyLimits
dailyLimits == [messages |-> 5, appMessages |-> 100]

\* this.conversationLimits
conversationLimits == [initial |-> 1, followUp |-> 1]

\* this.freeTierLimits
freeTierLimits ==
  [userLookup |-> 30, tweetLookup |-> 20, dmSend |-> 5, follow |-> 15, like |-> 25]

\* the zeroed this.apiCallCount
zeroCallCount ==
  [userLookup |-> 0, tweetLookup |-> 0, dmSend |-> 0, follow |-> 0, like |-> 0]

\* the client after its constructor: lastResetDate is not set
TwitterDMClient ==
  [isInitialized |-> FALSE, messagesSent |-> 0, apiCallCount |-> zeroCallCount]

\* new Date().toDateString(): the calendar day of a time
toDateString(t) == t \div MsPerDay

\* hasRelevantKeywords(content), for content that is present
relevantKeywords ==
  <<S_AI, S_automation, S_SaaS, S_marketing, S_sales, S_growth, S_startup,
    S_tech, S_product>>

hasRelevantKeywords(content) ==
  /\ Len(content) > 0
  /\ \E i \in 1..Len(relevantKeywords) :
        includes(toLowerCase(content), toLowerCase(relevantKeywords[i]))

spamIndicators ==
  <<S_spam, S_bot, S_fake, S_buy_followers, S_get_followers, S_follow_back>>

\* hasSpamIndicators(userData.username, userData.bio)
hasSpamIndicators(userData) ==
  LET username == IF Has(userData, "username") THEN userData.username ELSE <<>>
      bio == IF Has(userData, "bio") THEN userData.bio ELSE <<>>
      content == toLowerCase(username \o <<" ">> \o bio)
  IN  /\ Len(username) > 0 \/ Len(bio) > 0
      /\ \E i \in 1..Len(spamIndicators) : includes(content, spamIndicators[i])

\* the criteria object of isHighlyQualifiedForDM, as the set of criteria met
qualificationCriteria(userData, leadData, t) ==
  { c \in {"reasonableFollowers", "goodEngagementRate", "recentActivity",
           "relevantContent", "noSpamIndicators", "hasEngagedWithUs",
           "hasMutualConnections"} :
      CASE c = "reasonableFollowers" ->
             /\ Has(userData, "followerCount")
             /\ userData.followerCount >= 100
             /\ userData.followerCount <= 50000
        [] c = "goodEngagementRate" ->
             /\ Has(userData, "followerCount")
             /\ userData.followerCount > 0
             /\ Has(leadData, "recentTweets")
             /\ totalLikes(leadData.recentTweets) * 100 >= userData.followerCount
        [] c = "recentActivity" ->
             /\ Has(leadData, "lastActivity")
             /\ t - leadData.lastActivity < 3 * MsPerDay
        [] c = "relevantContent" ->
             \/ NonEmpty(userData, "bio") /\ hasRelevantKeywords(userData.bio)
             \/ /\ Has(leadData, "recentTweets")
                /\ \E i \in 1..Len(leadData.recentTweets) :
                      /\ Has(leadData.recentTweets[i], "text")
                      /\ hasRelevantKeywords(leadData.recentTweets[i].text)
        [] c = "noSpamIndicators" -> ~hasSpamIndicators(userData)
        [] c = "hasEngagedWithUs" ->
             Has(leadData, "hasEngagedWithUs") /\ leadData.hasEngagedWithUs
        [] c = "hasMutualConnections" -> NonEmpty(leadData, "mutualConnections") }

\* isHighlyQualifiedForDM(userData, leadData): at least 4 of the 7 criteria
isHighlyQualifiedForDM(userData, leadData, t) ==
  Cardinality(qualificationCriteria(userData, leadData, t)) >= 4

\* checkRateLimit letting a call through while messagesSent is at most the limit
checkRateLimit_atMost(c, action, t) ==
  LET today == toDateString(t)
      c1 == IF ~Has(c, "lastResetDate") \/ c.lastResetDate # today
            THEN [lastResetDate |-> today] @@
                 [c EXCEPT !.messagesSent = 0, !.apiCallCount = zeroCallCount]
            ELSE c
      counted == action \in DOMAIN c1.apiCallCount
      used == IF counted THEN c1.apiCallCount[action] ELSE 0
  IN  IF action \in ObjectPrototypeKeys
      THEN [client |-> c1, value |-> FALSE]
      ELSE IF action \in DOMAIN freeTierLimits /\ freeTierLimits[action] # 0
         /\ used >= freeTierLimits[action]
      THEN [client |-> c1, value |-> FALSE]
      ELSE LET c2 == IF counted
                     THEN [c1 EXCEPT !.apiCallCount[action] = @ + 1]
                     ELSE c1
           IN  [client |-> c2,
                value |-> IF action = "message"
                          THEN c2.messagesSent <= dailyLimits.messages
                          ELSE TRUE]

\* checkRateLimit refusing a call only once the count is above the limit
checkRateLimit_countsPastLimit(c, action, t) ==
  LET today == toDateString(t)
      c1 == IF ~Has(c, "lastResetDate") \/ c.lastResetDate # today
            THEN [lastResetDate |-> today] @@
                 [c EXCEPT !.messagesSent = 0, !.apiCallCount = zeroCallCount]
            ELSE c
      counted == action \in DOMAIN c1.apiCallCount
      used == IF counted THEN c1.apiCallCount[action] ELSE 0
  IN  IF action \in ObjectPrototypeKeys
      THEN [client |-> c1, value |-> FALSE]
      ELSE IF action \in DOMAIN freeTierLimits /\ freeTierLimits[action] # 0
         /\ used > freeTierLimits[action]
      THEN [client |-> c1, value |-> FALSE]
      ELSE LET c2 == IF counted
                     THEN [c1 EXCEPT !.apiCallCount[action] = @ + 1]
                     ELSE c1
           IN  [client |-> c2,
                value |-> IF action = "message"
                          THEN c2.messagesSent < dailyLimits.messages
                          ELSE TRUE]

\* checkRateLimit(action) at time t: the client afterwards and the value
\* returned.  For a name that freeTierLimits and apiCallCount inherit from
\* Object.prototype, limit and used are the same inherited value, `used >=
\* limit` compares it with itself and holds, and the call returns false.
checkRateLimit(c, action, t) ==
  LET today == toDateString(t)
      c1 == IF ~Has(c, "lastResetDate") \/ c.lastResetDate # today
            THEN [lastResetDate |-> today] @@
                 [c EXCEPT !.messagesSent = 0, !.apiCallCount = zeroCallCount]
            ELSE c
      counted == action \in DOMAIN c1.apiCallCount
      used == IF counted THEN c1.apiCallCount[action] ELSE 0
  IN  IF action \in ObjectPrototypeKeys
      THEN [client |-> c1, value |-> FALSE]
      ELSE IF action \in DOMAIN freeTierLimits /\ freeTierLimits[action] # 0
         /\ used >= freeTierLimits[action]
      THEN [client |-> c1, value |-> FALSE]
      ELSE LET c2 == IF counted
                     THEN [c1 EXCEPT !.apiCallCount[action] = @ + 1]
                     ELSE c1
           IN  [client |-> c2,
                value |-> IF action = "message"
                          THEN c2.messagesSent < dailyLimits.messages
                          ELSE TRUE]

\* Math.max(0, n)
max0(n) == IF n > 0 THEN n ELSE 0

\* getRemainingQuota() at time t
getRemainingQuota(c, t) ==
  [messages |-> max0(dailyLimits.messages - c.messagesSent),
   resetTime |-> t + MsPerDay] @@
  [action \in DOMAIN freeTierLimits |->
     [remaining |-> max0(freeTierLimits[action] - c.apiCallCount[action]),
      used |-> c.apiCallCount[action],
      limit |-> freeTierLimits[action]]]

\* how a client call ends: a result object or a thrown Error
Sent == [kind |-> "sent", message |-> "Direct message sent successfully"]

Skipped == [kind |-> "skipped", message |-> "User not highly qualified for DM"]

Thrown(message) == [kind |-> "thrown", message |-> message]

\* sendDirectMessage(recipientUserId, messageText, null, userData, leadData)
\* at time t, run to completion; initOk and postOk are the outcomes of
\* initialize() and of the POST direct_messages/events/new.  Yields the client
\* and the outreach log afterwards, the number of DMs posted and the result.
sendDirectMessage(c, log, recipientUserId, user, t, initOk, postOk) ==
  IF ~c.isInitialized /\ ~initOk
  THEN [client |-> c, outreachLog |-> log \cup {recipientUserId}, posted |-> 0,
        result |-> Thrown("Twitter API connection failed")]
  ELSE
    LET checked == checkRateLimit([c EXCEPT !.isInitialized = TRUE], "message", t) IN
    IF ~checked.value
    THEN [client |-> checked.client, outreachLog |-> log \cup {recipientUserId},
          posted |-> 0, result |-> Thrown("Daily message limit reached")]
    ELSE IF user.given /\ ~isHighlyQualifiedForDM(user.userData, user.leadData, t)
    THEN [client |-> checked.client, outreachLog |-> log, posted |-> 0,
          result |-> Skipped]
    ELSE IF ~postOk
    THEN [client |-> checked.client, outreachLog |-> log \cup {recipientUserId},
          posted |-> 0, result |-> Thrown("Twitter API request failed")]
    ELSE [client |-> [checked.client EXCEPT !.messagesSent = @ + 1],
          outreachLog |-> log \cup {recipientUserId}, posted |-> 1,
          result |-> Sent]

\* userData = null
noUserData == [given |-> FALSE]

\* sendFollowUpMessage(recipientUserId, messageText) at time t
sendFollowUpMessage(c, log, recipientUserId, t, initOk, postOk) ==
  IF ~c.isInitialized /\ ~initOk
  THEN [client |-> c, outreachLog |-> log, posted |-> 0,
        result |-> Thrown("Twitter API connection failed")]
  ELSE IF Cardinality(log \cap {recipientUserId}) >= conversationLimits.initial
  THEN [client |-> [c EXCEPT !.isInitialized = TRUE], outreachLog |-> log,
        posted |-> 0, result |-> Thrown("Conversation message limit reached")]
  ELSE sendDirectMessage([c EXCEPT !.isInitialized = TRUE], log, recipientUserId,
                         noUserData, t, TRUE, postOk)

---------------------------------------------------------------------------
(* The LinkedIn DM client (class LinkedInDMClient) *)

\* this.dailyLimits of the LinkedIn client
linkedinDailyLimits == [connectionRequests |-> 100, messages |-> 200, searches |-> 300]

\* the LinkedIn client after its constructor
LinkedInDMClient ==
  [isInitialized |-> FALSE, messagesSent |-> 0, connectionsRequested |-> 0]

\* {success: true, ...} of a simulated or sent LinkedIn action
Succeeded(action) == [kind |-> "sent", message |-> action]

\* LinkedInDMClient.sendConnectionRequest(recipientPersonId, message)
LinkedIn_sendConnectionRequest(c, initOk) ==
  IF ~c.isInitialized /\ ~initOk
  THEN [client |-> c, result |-> Thrown("LinkedIn API connection failed")]
  ELSE LET c0 == [c EXCEPT !.isInitialized = TRUE] IN
       IF c0.connectionsRequested >= linkedinDailyLimits.connectionRequests
       THEN [client |-> c0,
             result |-> Thrown("Daily connection request limit reached")]
       ELSE [client |-> [c0 EXCEPT !.connectionsRequested = @ + 1],
             result |-> Succeeded("connection_request")]

\* LinkedInDMClient.sendDirectMessage(recipientPersonId, messageText)
LinkedIn_sendDirectMessage(c, initOk) ==
  IF ~c.isInitialized /\ ~initOk
  THEN [client |-> c, result |-> Thrown("LinkedIn API connection failed")]
  ELSE LET c0 == [c EXCEPT !.isInitialized = TRUE] IN
       IF c0.messagesSent >= linkedinDailyLimits.messages
       THEN [client |-> c0, result |-> Thrown("Daily message limit reached")]
       ELSE [client |-> [c0 EXCEPT !.messagesSent = @ + 1],
             result |-> Succeeded("direct_message")]

\* LinkedInDMClient.sendFollowUpMessage(recipientPersonId, messageText);
\* responseOk is response.ok of the POST /v2/messages
LinkedIn_sendFollowUpMessage(c, initOk, responseOk) ==
  IF ~c.isInitialized /\ ~initOk
  THEN [client |-> c, result |-> Thrown("LinkedIn API connection failed")]
  ELSE LET c0 == [c EXCEPT !.isInitialized = TRUE] IN
       IF ~responseOk
       THEN [client |-> c0, result |-> Thrown("LinkedIn follow-up failed")]
       ELSE [client |-> [c0 EXCEPT !.messagesSent = @ + 1],
             result |-> Succeeded("follow_up")]

---------------------------------------------------------------------------
(* The dispatcher (class DMDispatcherAgent) *)

S_linkedin_in == <<"l", "i", "n", "k", "e", "d", "i", "n", ".", "c", "o", "m", "/", "i", "n", "/">>

S_url_johnsmith == <<"h", "t", "t", "p", "s", ":", "/", "/", "l", "i", "n", "k", "e", "d", "i", "n", ".", "c", "o", "m", "/", "i", "n", "/", "j", "o", "h", "n", "s", "m", "i", "t", "h">>

\* the names of the templates loadTemplates() has read
loadedTemplates == {"cold-outreach"}

\* campaignConfig.delay || 300000 and campaignConfig.dailyLimit || 50
defaultDelay == 300000

defaultDailyLimit == 50

\* the characters of s before its first "/"
RECURSIVE upToSlash(_)
upToSlash(s) ==
  IF Len(s) = 0 \/ Head(s) = "/" THEN <<>>
  ELSE <<Head(s)>> \o upToSlash(Tail(s))

\* profileUrl.match(/linkedin\.com\/in\/(.+?)(?:\/|$)/): the captured id, or null
extractPersonIdFromProfile(profileUrl) ==
  LET i == indexOf(profileUrl, S_linkedin_in)
      rest == SubSeq(profileUrl, i + Len(S_linkedin_in), Len(profileUrl))
  IN  IF i = 0 \/ Len(rest) = 0
      THEN Returned("null", <<>>)
      ELSE Returned("string", <<Head(rest)>> \o upToSlash(Tail(rest)))

\* the result object of a platform for which outreach threw
failedResult(l, platform, message) ==
  [leadId |-> l.id, platform |-> platform, success |-> FALSE, error |-> message]

\* sendLinkedInOutreach(lead, campaign); profileOk tells whether getProfileInfo
\* found the profile and isConnected what isAlreadyConnected answered.  Yields
\* the LinkedIn client afterwards, the action performed and the result (a
\* thrown error is already the result object processLead records for it; the
\* action of a result is a list of names, as for Twitter).
sendLinkedInOutreach(li, l, camp, profileOk, isConnected) ==
  LET failed(message) ==
        [linkedin |-> li, performed |-> "none",
         result |-> failedResult(l, "linkedin", message)]
      personId == extractPersonIdFromProfile(l.profileUrl)
  IN  IF camp.template \notin loadedTemplates
      THEN failed("LinkedIn outreach failed: Template not found")
      ELSE IF ~Has(l, "profileUrl")
      THEN failed("LinkedIn outreach failed: TypeError")
      ELSE IF personId.kind = "null"
      THEN failed("LinkedIn outreach failed: Could not extract LinkedIn person ID")
      ELSE IF ~profileOk
      THEN failed("LinkedIn outreach failed: TypeError")
      ELSE LET sent == IF isConnected
                       THEN LinkedIn_sendDirectMessage(li, TRUE)
                       ELSE LinkedIn_sendConnectionRequest(li, TRUE)
           IN  IF sent.result.kind = "thrown"
               THEN [linkedin |-> sent.client, performed |-> "none",
                     result |-> failedResult(l, "linkedin", sent.result.message)]
               ELSE [linkedin |-> sent.client,
                     performed |-> sent.result.message,
                     result |-> [leadId |-> l.id, platform |-> "linkedin",
                                 action |-> <<sent.result.message>>,
                                 success |-> TRUE]]

\* the result object of a lead that sendTwitterOutreach passes over
skippedResult(l, reason) ==
  [leadId |-> l.id, platform |-> "twitter", action |-> <<"skipped">>,
   reason |-> reason]

\* personalizeTwitterMessage(template.twitter.directMessage, lead, lead) raises
\* a TypeError when the campaign's template is not loaded, and when the lead's
\* first recent tweet has no content (extractTopicFromTweet reads
\* content.toLowerCase()); the text of the message is not modelled
personalizeThrows(l, camp) ==
  \/ camp.template \notin loadedTemplates
  \/ NonEmpty(l, "recentTweets") /\ ~Has(l.recentTweets[1], "content")

\* sendTwitterOutreach(lead, campaign) from the quota read on, at time t;
\* followOk, likeOk and postOk tell whether the follow, like and DM requests
\* succeed at Twitter (getUserInfo catches its own errors).  Each step runs in
\* its own try/catch, so a step that throws is passed over.
executeSequence(c, log, l, camp, t, followOk, likeOk, postOk) ==
  LET steps(quota, sequence) ==
        LET dmTried ==
              /\ \E i \in 1..Len(sequence) : sequence[i].action = "dmSend"
              /\ quota.dmSend.remaining > 0
              /\ ~personalizeThrows(l, camp)
            dm == sendDirectMessage(c, log, l.id, noUserData, t, TRUE, postOk)
            outcomeOf(action) ==
              CASE action = "follow" ->
                     IF quota.follow.remaining <= 0 THEN "skipped"
                     ELSE IF followOk THEN "done" ELSE "failed"
                [] action = "like" ->
                     IF quota.like.remaining <= 0 \/ ~NonEmpty(l, "recentTweets")
                     THEN "skipped"
                     ELSE IF likeOk THEN "done" ELSE "failed"
                [] action = "research" ->
                     IF quota.userLookup.remaining <= 0 THEN "skipped" ELSE "done"
                [] action = "dmSend" ->
                     IF quota.dmSend.remaining <= 0 THEN "skipped"
                     ELSE IF dmTried /\ dm.result.kind = "sent" THEN "done"
                     ELSE "failed"
        IN  IF Len(sequence) = 0
            THEN [client |-> c, outreachLog |-> log, quotaRead |-> TRUE,
                  steps |-> <<>>, posted |-> 0,
                  result |-> skippedResult(l, "no_api_quota")]
            ELSE [client |-> IF dmTried THEN dm.client ELSE c,
                  outreachLog |-> IF dmTried THEN dm.outreachLog ELSE log,
                  quotaRead |-> TRUE,
                  steps |-> [i \in 1..Len(sequence) |->
                               [action |-> sequence[i].action,
                                outcome |-> outcomeOf(sequence[i].action)]],
                  posted |-> IF dmTried THEN dm.posted ELSE 0,
                  result |-> [leadId |-> l.id, platform |-> "twitter",
                              action |-> [i \in 1..Len(sequence) |->
                                            sequence[i].action],
                              success |-> dmTried /\ dm.result.kind = "sent"]]
      \* const quota = this.twitterClient.getRemainingQuota();
      \* const sequence = this.twitterStrategy.getOutreachSequence(lead, quota);
      \* each computed once, then the steps run on them
      outcomes ==
        UNION { { steps(quota, sequence) :
                    sequence \in {getOutreachSequence(l, quota, t)} } :
                quota \in {getRemainingQuota(c, t)} }
  IN  CHOOSE r \in outcomes : TRUE

\* sendTwitterOutreach that reads the quota and looks the user up before it
\* decides to skip the lead
sendTwitterOutreach_lookupFirst(c, log, l, camp, t, followOk, likeOk, postOk) ==
  IF ~isWorthEngaging(l, t)
  THEN [client |-> c, outreachLog |-> log, quotaRead |-> TRUE,
        steps |-> <<[action |-> "research", outcome |-> "done"]>>, posted |-> 0,
        result |-> skippedResult(l, "low_engagement_potential")]
  ELSE executeSequence(c, log, l, camp, t, followOk, likeOk, postOk)

\* sendTwitterOutreach(lead, campaign) at time t.  Yields the Twitter client
\* and the outreach log afterwards, whether the quota was read, the outcome of
\* every step of the sequence, the number of DMs posted and the result object.
\* The action of the result is the list of step names the code joins with "_".
sendTwitterOutreach(c, log, l, camp, t, followOk, likeOk, postOk) ==
  IF ~isWorthEngaging(l, t)
  THEN [client |-> c, outreachLog |-> log, quotaRead |-> FALSE, steps |-> <<>>,
        posted |-> 0, result |-> skippedResult(l, "low_engagement_potential")]
  ELSE executeSequence(c, log, l, camp, t, followOk, likeOk, postOk)

\* campaign.settings of startCampaign: a missing or zero value takes the default
settingsOf(config) ==
  [delay |-> IF Has(config, "delay") /\ config.delay # 0
             THEN config.delay ELSE defaultDelay,
   dailyLimit |-> IF Has(config, "dailyLimit") /\ config.dailyLimit # 0
                  THEN config.dailyLimit ELSE defaultDailyLimit]

\* the calls a lead has received, by kind
NoEffects ==
  [follow |-> 0, like |-> 0, research |-> 0, dmSend |-> 0,
   connection_request |-> 0, direct_message |-> 0]

\* no campaign has been started
NoCampaign == [status |-> "none"]

---------------------------------------------------------------------------
(* The caller: builds a lead and a snapshot, then calls the strategy *)

\* new TwitterDMClient(): no log file, no message posted, no call in flight
ConstructClient ==
  /\ client = TwitterDMClient
  /\ outreachLog = {}
  /\ day = [posted |-> 0, issued |-> 0]
  /\ calls = <<>>

\* new DMDispatcherAgent(): a LinkedIn client, no campaign, no call made
ConstructDispatcher ==
  /\ linkedin = LinkedInDMClient
  /\ campaign = NoCampaign
  /\ effects = <<>>

Init ==
  /\ lead \in SeqLeads
  /\ apiQuota \in QuotaSnapshots
  /\ now = Now0
  /\ ret = NoCall
  /\ prev = NoCall
  /\ ConstructClient
  /\ ConstructDispatcher

InitQual ==
  /\ lead \in QualLeads
  /\ apiQuota = mockQuota
  /\ now = Now0
  /\ ret = NoCall
  /\ prev = NoCall
  /\ ConstructClient
  /\ ConstructDispatcher

InitAbsent ==
  /\ lead \in AbsentLeads
  /\ apiQuota = mockQuota
  /\ now = Now0
  /\ ret = NoCall
  /\ prev = NoCall
  /\ ConstructClient
  /\ ConstructDispatcher

\* the wall clock advances by one day between two calls
Tick ==
  /\ now < Now0 + MaxTicks * MsPerDay
  /\ now' = now + MsPerDay
  /\ UNCHANGED <<lead, apiQuota, ret, prev>>
  /\ UNCHANGED clientVars
  /\ UNCHANGED dispatcherVars

\* a call that also takes the DM it plans out of the caller's snapshot
GetOutreachSequence_consumesQuota ==
  LET sequence == getOutreachSequence(lead, apiQuota, now) IN
  /\ ret' = [op |-> "getOutreachSequence", at |-> now, value |-> sequence]
  /\ prev' = ret
  /\ apiQuota' =
       IF \E i \in 1..Len(sequence) : sequence[i].action = "dmSend"
       THEN [apiQuota EXCEPT !.dmSend.remaining = @ - 1]
       ELSE apiQuota
  /\ UNCHANGED <<lead, now>>
  /\ UNCHANGED clientVars
  /\ UNCHANGED dispatcherVars

\* strategy.getOutreachSequence(lead, apiQuota); the previous result is kept
GetOutreachSequence ==
  /\ ret' = [op |-> "getOutreachSequence", at |-> now,
             value |-> getOutreachSequence(lead, apiQuota, now)]
  /\ prev' = ret
  /\ UNCHANGED <<lead, apiQuota, now>>
  /\ UNCHANGED clientVars
  /\ UNCHANGED dispatcherVars

\* strategy.isWorthResearching(lead)
IsWorthResearching ==
  /\ ret' = [op |-> "isWorthResearching", at |-> now, value |-> isWorthResearching(lead)]
  /\ UNCHANGED <<lead, apiQuota, now, prev>>
  /\ UNCHANGED clientVars
  /\ UNCHANGED dispatcherVars

\* strategy.isWorthEngaging(lead)
IsWorthEngaging ==
  /\ ret' = [op |-> "isWorthEngaging", at |-> now, value |-> isWorthEngaging(lead, now)]
  /\ UNCHANGED <<lead, apiQuota, now, prev>>
  /\ UNCHANGED clientVars
  /\ UNCHANGED dispatcherVars

\* strategy.isHighlyQualified(lead)
IsHighlyQualified ==
  /\ ret' = [op |-> "isHighlyQualified", at |-> now, value |-> isHighlyQualified(lead, now)]
  /\ UNCHANGED <<lead, apiQuota, now, prev>>
  /\ UNCHANGED clientVars
  /\ UNCHANGED dispatcherVars

InitRender ==
  /\ lead \in RenderLeads
  /\ apiQuota = mockQuota
  /\ now = Now0
  /\ ret = NoCall
  /\ prev = NoCall
  /\ ConstructClient
  /\ ConstructDispatcher

\* strategy.generateDMMessage(type, lead, tweetData)
GenerateDMMessage ==
  \E type \in DMTypes : \E tweetData \in TweetDataOf(lead) :
    /\ ret' = [op |-> "generateDMMessage", at |-> now, id |-> type,
               tweetData |-> tweetData,
               value |-> generateDMMessage(type, lead, tweetData)]
    /\ UNCHANGED <<lead, apiQuota, now, prev>>
    /\ UNCHANGED clientVars
    /\ UNCHANGED dispatcherVars

\* strategy.generateEngagementMessage(action, lead, tweetData)
GenerateEngagementMessage ==
  \E action \in EngagementActions : \E tweetData \in TweetDataOf(lead) :
    /\ ret' = [op |-> "generateEngagementMessage", at |-> now, id |-> action,
               tweetData |-> tweetData,
               value |-> generateEngagementMessage(action, lead, tweetData)]
    /\ UNCHANGED <<lead, apiQuota, now, prev>>
    /\ UNCHANGED clientVars
    /\ UNCHANGED dispatcherVars

\* strategy.extractInsight(text)
ExtractInsight ==
  \E g \in InsightTexts :
    /\ ret' = [op |-> "extractInsight", at |-> now, text |-> g,
               value |-> extractInsight(TextOf(g))]
    /\ UNCHANGED <<lead, apiQuota, now, prev>>
    /\ UNCHANGED clientVars
    /\ UNCHANGED dispatcherVars

\* the strategy alone, for calls that read no lead
InitInsight ==
  /\ lead = NoProps
  /\ apiQuota = mockQuota
  /\ now = Now0
  /\ ret = NoCall
  /\ prev = NoCall
  /\ ConstructClient
  /\ ConstructDispatcher

NextRender == GenerateDMMessage \/ GenerateEngagementMessage

NextInsight == ExtractInsight

SpecRender == InitRender /\ [][NextRender]_vars

SpecInsight == InitInsight /\ [][NextInsight]_vars

Next == GetOutreachSequence \/ Tick

NextQual == IsWorthResearching \/ IsWorthEngaging \/ IsHighlyQualified \/ Tick

NextAbsent ==
  IsWorthResearching \/ IsWorthEngaging \/ IsHighlyQualified \/ GetOutreachSequence

Spec == Init /\ [][Next]_vars

SpecAbsent == InitAbsent /\ [][NextAbsent]_vars

SpecQual == InitQual /\ [][NextQual]_vars

---------------------------------------------------------------------------
(* The callers of the Twitter DM client *)

\* recipient user ids
Recipients == {1, 2}

\* userData and leadData arguments: none, a qualified and an unqualified user
UserArgs ==
  { noUserData,
    [given |-> TRUE,
     userData |-> [username |-> S_sarah_tech, bio |-> S_bioSarah, followerCount |-> 2500],
     leadData |-> [hasEngagedWithUs |-> TRUE, mutualConnections |-> <<2>>]],
    [given |-> TRUE,
     userData |-> [username |-> S_alex_bot_follower, bio |-> S_bioAlex, followerCount |-> 50],
     leadData |-> NoProps] }

\* outcomes of initialize(): only drawn while the client is not initialized
InitOutcomes == IF client.isInitialized THEN {TRUE} ELSE BOOLEAN

\* one client, no call made, nothing posted today
InitClient ==
  /\ lead = NoProps
  /\ apiQuota = mockQuota
  /\ now = Now0
  /\ ret = NoCall
  /\ prev = NoCall
  /\ ConstructClient
  /\ ConstructDispatcher

\* await client.sendDirectMessage(...), run to completion
SendDirectMessage ==
  /\ day.issued < MaxCalls
  /\ \E recipientUserId \in Recipients : \E user \in UserArgs :
     \E initOk \in InitOutcomes : \E postOk \in BOOLEAN :
       LET r == sendDirectMessage(client, outreachLog, recipientUserId, user,
                                  now, initOk, postOk)
       IN  /\ client' = r.client
           /\ outreachLog' = r.outreachLog
           /\ day' = [posted |-> day.posted + r.posted, issued |-> day.issued + 1]
           /\ ret' = [op |-> "sendDirectMessage", at |-> now, value |-> r.result]
  /\ UNCHANGED <<lead, apiQuota, now, prev, calls>>
  /\ UNCHANGED dispatcherVars

\* await client.sendFollowUpMessage(...), run to completion
SendFollowUpMessage ==
  /\ day.issued < MaxCalls
  /\ \E recipientUserId \in Recipients :
     \E initOk \in InitOutcomes : \E postOk \in BOOLEAN :
       LET r == sendFollowUpMessage(client, outreachLog, recipientUserId,
                                    now, initOk, postOk)
       IN  /\ client' = r.client
           /\ outreachLog' = r.outreachLog
           /\ day' = [posted |-> day.posted + r.posted, issued |-> day.issued + 1]
           /\ ret' = [op |-> "sendFollowUpMessage", at |-> now, value |-> r.result]
  /\ UNCHANGED <<lead, apiQuota, now, prev, calls>>
  /\ UNCHANGED dispatcherVars

\* client.getRemainingQuota()
GetRemainingQuota ==
  /\ ret' = [op |-> "getRemainingQuota", at |-> now,
             value |-> getRemainingQuota(client, now)]
  /\ UNCHANGED <<lead, apiQuota, now, prev, client, outreachLog, day, calls>>
  /\ UNCHANGED dispatcherVars

\* twelve hours pass; at midnight Twitter's count of the day starts again
HalfDay ==
  /\ now < Now0 + MaxTicks * MsPerDay
  /\ now' = now + MsPerDay \div 2
  /\ day' = IF toDateString(now') # toDateString(now)
            THEN [posted |-> 0, issued |-> 0]
            ELSE day
  /\ UNCHANGED <<lead, apiQuota, ret, prev, client, outreachLog, calls>>
  /\ UNCHANGED dispatcherVars

NextClient ==
  SendDirectMessage \/ SendFollowUpMessage \/ GetRemainingQuota \/ HalfDay

SpecClient == InitClient /\ [][NextClient]_vars

\* sendDirectMessage calls in flight at once, each at one of its await points
CallIds == 1..MaxInFlight

InitConcurrent ==
  /\ lead = NoProps
  /\ apiQuota = mockQuota
  /\ now = Now0
  /\ ret = NoCall
  /\ prev = NoCall
  /\ client = TwitterDMClient
  /\ outreachLog = {}
  /\ day = [posted |-> 0, issued |-> 0]
  /\ calls = [p \in CallIds |-> "idle"]
  /\ ConstructDispatcher

\* the synchronous part of sendDirectMessage from the rate limit check up to
\* the await of the POST, for a call without userData
CheckThenPost(p) ==
  LET checked == checkRateLimit(client, "message", now) IN
  /\ client' = checked.client
  /\ calls' = [calls EXCEPT ![p] = IF checked.value THEN "posting" ELSE "failed"]

\* a call enters sendDirectMessage: it awaits initialize() when the client is
\* not initialized and goes on to the check at once when it is
Enter(p) ==
  /\ calls[p] = "idle"
  /\ day' = [day EXCEPT !.issued = @ + 1]
  /\ IF client.isInitialized
     THEN CheckThenPost(p)
     ELSE calls' = [calls EXCEPT ![p] = "initializing"] /\ UNCHANGED client
  /\ UNCHANGED <<lead, apiQuota, now, ret, prev, outreachLog>>
  /\ UNCHANGED dispatcherVars

\* initialize() resolves for a call: isInitialized is set and the call goes on
Initialized(p) ==
  /\ calls[p] = "initializing"
  /\ LET checked == checkRateLimit([client EXCEPT !.isInitialized = TRUE],
                                   "message", now)
     IN  /\ client' = checked.client
         /\ calls' = [calls EXCEPT ![p] = IF checked.value THEN "posting" ELSE "failed"]
  /\ UNCHANGED <<lead, apiQuota, now, ret, prev, outreachLog, day>>
  /\ UNCHANGED dispatcherVars

\* Twitter creates the direct message of a call awaiting its POST
Post(p) ==
  /\ calls[p] = "posting"
  /\ calls' = [calls EXCEPT ![p] = "resuming"]
  /\ day' = [day EXCEPT !.posted = @ + 1]
  /\ UNCHANGED <<lead, apiQuota, now, ret, prev, client, outreachLog>>
  /\ UNCHANGED dispatcherVars

\* the POST resolves and the call resumes: this.messagesSent++ and the log entry
Resume(p) ==
  /\ calls[p] = "resuming"
  /\ client' = [client EXCEPT !.messagesSent = @ + 1]
  /\ outreachLog' = outreachLog \cup {1}
  /\ calls' = [calls EXCEPT ![p] = "done"]
  /\ ret' = [op |-> "sendDirectMessage", at |-> now, value |-> Sent]
  /\ UNCHANGED <<lead, apiQuota, now, prev, day>>
  /\ UNCHANGED dispatcherVars

NextConcurrent ==
  \E p \in CallIds : Enter(p) \/ Initialized(p) \/ Post(p) \/ Resume(p)

SpecConcurrent == InitConcurrent /\ [][NextConcurrent]_vars

---------------------------------------------------------------------------
(* Callers of checkRateLimit *)

\* action names: two counted API actions, 'message', a name that is no
\* property, and a name inherited from Object.prototype
ActionNames == {"dmSend", "follow", "message", "reply", "constructor"}

\* client.checkRateLimit(action)
CheckRateLimit ==
  /\ \E action \in ActionNames :
       LET checked == checkRateLimit(client, action, now) IN
       /\ client' = checked.client
       /\ ret' = [op |-> "checkRateLimit", at |-> now, action |-> action,
                  value |-> checked.value]
  /\ UNCHANGED <<lead, apiQuota, now, prev, outreachLog, day, calls>>
  /\ UNCHANGED dispatcherVars

NextRateLimit == CheckRateLimit \/ GetRemainingQuota \/ HalfDay

SpecRateLimit == InitClient /\ [][NextRateLimit]_vars

---------------------------------------------------------------------------
(* Callers of the LinkedIn client *)

\* new LinkedInDMClient(), with nothing sent yet
InitLinkedIn ==
  /\ lead = NoProps
  /\ apiQuota = mockQuota
  /\ now = Now0
  /\ ret = NoCall
  /\ prev = NoCall
  /\ ConstructClient
  /\ ConstructDispatcher

\* await linkedin.sendConnectionRequest(personId, message)
LinkedInSendConnectionRequest ==
  /\ \E initOk \in BOOLEAN :
       LET r == LinkedIn_sendConnectionRequest(linkedin, initOk) IN
       /\ linkedin' = r.client
       /\ ret' = [op |-> "sendConnectionRequest", at |-> now, value |-> r.result]
  /\ UNCHANGED <<lead, apiQuota, now, prev, campaign, effects>>
  /\ UNCHANGED clientVars

\* await linkedin.sendDirectMessage(personId, messageText)
LinkedInSendDirectMessage ==
  /\ \E initOk \in BOOLEAN :
       LET r == LinkedIn_sendDirectMessage(linkedin, initOk) IN
       /\ linkedin' = r.client
       /\ ret' = [op |-> "sendDirectMessage", at |-> now, value |-> r.result]
  /\ UNCHANGED <<lead, apiQuota, now, prev, campaign, effects>>
  /\ UNCHANGED clientVars

\* await linkedin.sendFollowUpMessage(personId, messageText); the counter has
\* no upper end in the code, the runs looked at stop MaxExcess above the limit
LinkedInSendFollowUpMessage ==
  /\ linkedin.messagesSent < linkedinDailyLimits.messages + MaxExcess
  /\ \E initOk \in BOOLEAN : \E responseOk \in BOOLEAN :
       LET r == LinkedIn_sendFollowUpMessage(linkedin, initOk, responseOk) IN
       /\ linkedin' = r.client
       /\ ret' = [op |-> "sendFollowUpMessage", at |-> now, value |-> r.result]
  /\ UNCHANGED <<lead, apiQuota, now, prev, campaign, effects>>
  /\ UNCHANGED clientVars

NextLinkedIn ==
  \/ LinkedInSendConnectionRequest
  \/ LinkedInSendDirectMessage
  \/ LinkedInSendFollowUpMessage

SpecLinkedIn == InitLinkedIn /\ [][NextLinkedIn]_vars

---------------------------------------------------------------------------
(* A campaign run: run-campaign.js and DMDispatcherAgent.startCampaign *)

\* a Twitter lead that is worth engaging and highly qualified for the
\* strategy, without posts, bio, engagement with us or mutual connections
leadT1 ==
  [id |-> "t1", platform |-> "twitter", username |-> S_sarah_tech,
   keywords |-> keywordsSarah, followerCount |-> 2500,
   lastActivity |-> Now0 - 2 * MsPerDay]

\* a Twitter lead with a post, as the lead hunter builds them
leadT2 ==
  [id |-> "t2", platform |-> "twitter", username |-> S_sarah_tech,
   keywords |-> keywordsSarah,
   recentTweets |-> <<[id |-> "tweet_1", content |-> T_launch,
                       engagement |-> [likes |-> 45, comments |-> 8]]>>,
   followerCount |-> 2500, lastActivity |-> Now0 - 2 * MsPerDay,
   hasEngagedWithUs |-> TRUE, mutualConnections |-> <<"john_doe", "jane_smith">>]

\* a Twitter lead that is worth researching and highly qualified for the
\* strategy, but not worth engaging
leadT3 ==
  [id |-> "t3", platform |-> "twitter", username |-> S_sarah_tech,
   keywords |-> keywordsSarah, hasEngagedWithUs |-> TRUE,
   mutualConnections |-> <<"john_doe", "jane_smith">>]

\* the LinkedIn lead of runTest
leadL1 ==
  [id |-> "l1", platform |-> "linkedin", profileUrl |-> S_url_johnsmith,
   keywords |-> <<S_AI, S_automation>>]

CampaignLeads == {leadT1, leadT2, leadT3, leadL1}

LeadIds == {l.id : l \in CampaignLeads}

\* lead lists of up to MaxLeads leads; a lead may be named more than once
LeadLists == UNION {[1..n -> CampaignLeads] : n \in 0..MaxLeads}

\* campaignConfig: the lead list, a loaded or a missing template, and a
\* dailyLimit that is absent or a number from 0
CampaignConfigs ==
  { [leads |-> ls, template |-> tp, platforms |-> {"linkedin", "twitter"}] @@ dl :
      ls \in LeadLists,
      tp \in {"cold-outreach", "missing"},
      dl \in {NoProps} \cup {[dailyLimit |-> n] : n \in 0..MaxLeads} }

\* new DMDispatcherAgent(); await agent.initialize(): both clients are
\* initialized and no campaign has been started
InitCampaign ==
  /\ lead = NoProps
  /\ apiQuota = mockQuota
  /\ now = Now0
  /\ ret = NoCall
  /\ prev = NoCall
  /\ client = [TwitterDMClient EXCEPT !.isInitialized = TRUE]
  /\ outreachLog = {}
  /\ day = [posted |-> 0, issued |-> 0]
  /\ calls = <<>>
  /\ linkedin = [LinkedInDMClient EXCEPT !.isInitialized = TRUE]
  /\ campaign = NoCampaign
  /\ effects = [id \in LeadIds |-> NoEffects]

\* agent.startCampaign(campaignConfig) up to the call of processLeads
StartCampaign ==
  /\ campaign.status = "none"
  /\ \E config \in CampaignConfigs :
       campaign' = [status |-> "active", config |-> config,
                    leads |-> config.leads, template |-> config.template,
                    platforms |-> config.platforms,
                    settings |-> settingsOf(config),
                    stats |-> [sent |-> 0], startedAt |-> now,
                    next |-> 1, processed |-> 0, results |-> <<>>]
  /\ UNCHANGED <<lead, apiQuota, now, ret, prev, linkedin, effects>>
  /\ UNCHANGED clientVars

\* the calls made for a lead, added to what it has received so far
Received(e, steps, performed) ==
  LET done(a) == Cardinality({i \in 1..Len(steps) :
                     steps[i].action = a /\ steps[i].outcome = "done"})
  IN  [follow |-> e.follow + done("follow"), like |-> e.like + done("like"),
       research |-> e.research + done("research"),
       dmSend |-> e.dmSend + done("dmSend"),
       connection_request |->
         e.connection_request + (IF performed = "connection_request" THEN 1 ELSE 0),
       direct_message |->
         e.direct_message + (IF performed = "direct_message" THEN 1 ELSE 0)]

\* one pass of the loop of processLeads: the daily limit check, processLead
\* for the next lead on its platform, the counters, and the sleep before the
\* next lead.  processLead catches what the outreach throws, so the catch of
\* processLeads is not entered for a lead that is an object.
ProcessNextLead ==
  /\ campaign.status = "active"
  /\ campaign.next <= Len(campaign.leads)
  /\ IF campaign.processed >= campaign.settings.dailyLimit
     THEN /\ campaign' = [campaign EXCEPT !.next = Len(campaign.leads) + 1]
          /\ UNCHANGED <<now, ret, client, outreachLog, day, linkedin, effects>>
     ELSE
       LET l == campaign.leads[campaign.next]
           onLinkedIn == /\ "linkedin" \in campaign.platforms
                         /\ Has(l, "platform") /\ l.platform = "linkedin"
           onTwitter == /\ "twitter" \in campaign.platforms
                        /\ Has(l, "platform") /\ l.platform = "twitter"
           processed == campaign.processed + 1
           Sleep == now' = IF processed < Len(campaign.leads)
                           THEN now + campaign.settings.delay ELSE now
           Push(leadResults) ==
             campaign' =
               [campaign EXCEPT
                  !.results = @ \o leadResults,
                  !.processed = processed,
                  !.stats.sent = @ + Cardinality({i \in 1..Len(leadResults) :
                      Has(leadResults[i], "success") /\ leadResults[i].success}),
                  !.next = @ + 1]
       IN  \/ /\ onLinkedIn
              /\ \E profileOk \in BOOLEAN : \E isConnected \in BOOLEAN :
                 \E li \in {sendLinkedInOutreach(linkedin, l, campaign,
                                                  profileOk, isConnected)} :
                       /\ linkedin' = li.linkedin
                       /\ effects' = [effects EXCEPT ![l.id] =
                                        Received(@, <<>>, li.performed)]
                       /\ Push(<<li.result>>)
                       /\ ret' = [op |-> "processLead", at |-> now,
                                  leadId |-> l.id, quotaRead |-> FALSE,
                                  steps |-> <<>>, value |-> <<li.result>>]
              /\ Sleep
              /\ UNCHANGED <<client, outreachLog, day>>
           \/ /\ onTwitter
              /\ \E followOk \in BOOLEAN : \E likeOk \in BOOLEAN :
                 \E postOk \in BOOLEAN :
                 \E tw \in {sendTwitterOutreach(client, outreachLog, l, campaign,
                                                now, followOk, likeOk, postOk)} :
                       /\ client' = tw.client
                       /\ outreachLog' = tw.outreachLog
                       /\ day' = [day EXCEPT !.posted = @ + tw.posted]
                       /\ effects' = [effects EXCEPT ![l.id] =
                                        Received(@, tw.steps, "none")]
                       /\ Push(<<tw.result>>)
                       /\ ret' = [op |-> "processLead", at |-> now,
                                  leadId |-> l.id, quotaRead |-> tw.quotaRead,
                                  steps |-> tw.steps, value |-> <<tw.result>>]
              /\ Sleep
              /\ UNCHANGED linkedin
  /\ UNCHANGED <<lead, apiQuota, prev, calls>>

\* startCampaign marking a campaign that sent nothing as failed
CompleteCampaign_failedWhenNothingSent ==
  /\ campaign.status = "active"
  /\ campaign.next > Len(campaign.leads)
  /\ campaign' = IF campaign.stats.sent > 0
                 THEN [completedAt |-> now] @@ [campaign EXCEPT !.status = "completed"]
                 ELSE [campaign EXCEPT !.status = "failed"]
  /\ ret' = [op |-> "startCampaign", at |-> now, status |-> campaign'.status]
  /\ UNCHANGED <<lead, apiQuota, now, prev, linkedin, effects>>
  /\ UNCHANGED clientVars

\* processLeads has returned: the campaign is marked completed and saved
CompleteCampaign ==
  /\ campaign.status = "active"
  /\ campaign.next > Len(campaign.leads)
  /\ campaign' = [completedAt |-> now] @@ [campaign EXCEPT !.status = "completed"]
  /\ ret' = [op |-> "startCampaign", at |-> now, status |-> campaign'.status]
  /\ UNCHANGED <<lead, apiQuota, now, prev, linkedin, effects>>
  /\ UNCHANGED clientVars

NextCampaign == StartCampaign \/ ProcessNextLead \/ CompleteCampaign

SpecCampaign == InitCampaign /\ [][NextCampaign]_vars

\* an awaited call settles, so a started campaign keeps taking its next step
SpecCampaignLive == SpecCampaign /\ WF_vars(ProcessNextLead \/ CompleteCampaign)

---------------------------------------------------------------------------
(* Vocabulary of the properties *)

Bit(b) == IF b THEN 1 ELSE 0

\* the last call returned from getOutreachSequence
SequenceReturned == ret.op = "getOutreachSequence"

\* the action names of a sequence, in order
ActionsOf(seq) == [i \in 1..Len(seq) |-> seq[i].action]

\* the quota entry an action kind draws on
QuotaKindOf(action) == IF action = "research" THEN "userLookup" ELSE action

\* some element of list occurs in s, compared in lower case
ContainsAny(s, list) ==
  \E j \in 1..Len(list) : includes(toLowerCase(s), toLowerCase(list[j]))

\* the sum of the like counts of the lead's recent posts
LikesOf(l) == totalLikes(l.recentTweets)

\* the test lead Alex Bot
alexBot ==
  [username |-> S_alex_bot_follower, bio |-> S_bioAlex, keywords |-> keywordsAlex,
   recentTweets |-> tweetsAlex, followerCount |-> 500,
   lastActivity |-> Now0 - 5 * MsPerDay, hasEngagedWithUs |-> FALSE,
   mutualConnections |-> <<>>]

---------------------------------------------------------------------------
(* Properties of getOutreachSequence, under Spec *)

\* C1: a returned sequence holds dmSend only at a position preceded by at least
\* two other steps, and only if isHighlyQualified(lead) is true; dmSend is never
\* the first or the only element.
C1_DmAfterTwoSteps ==
  SequenceReturned =>
    \A i \in 1..Len(ret.value) :
       ret.value[i].action = "dmSend" =>
         /\ i > 2
         /\ \A j \in 1..(i - 1) : ret.value[j].action # "dmSend"
         /\ isHighlyQualified(lead, ret.at)

\* C1 witness: a returned sequence that ends with dmSend
C1_Witness ==
  /\ SequenceReturned
  /\ Len(ret.value) >= 3
  /\ ret.value[Len(ret.value)].action = "dmSend"

\* C2: no step of a returned sequence has an action kind whose remaining quota
\* in the snapshot is zero; dmSend never appears when the DM quota is 0.
C2_NoStepWithoutQuota ==
  SequenceReturned =>
    \A i \in 1..Len(ret.value) :
       apiQuota[QuotaKindOf(ret.value[i].action)].remaining > 0

\* C2 witness: a highly qualified lead with two engagement steps and DM quota 0
C2_Witness ==
  /\ SequenceReturned
  /\ apiQuota.dmSend.remaining = 0
  /\ isHighlyQualified(lead, ret.at)
  /\ Len(ret.value) >= 2

\* C3 as stated: in every non-empty returned sequence the priority ranks are
\* strictly increasing and the first step has priority rank 1.
C3_StartsAtRankOne ==
  (SequenceReturned /\ Len(ret.value) > 0) =>
    /\ \A i \in 1..(Len(ret.value) - 1) :
          ret.value[i].priority < ret.value[i + 1].priority
    /\ ret.value[1].priority = 1

\* C3 amended: in every non-empty returned sequence the priority ranks are
\* strictly increasing; the first step has rank 1 exactly when it is the
\* research step, and is otherwise the follow step with rank 2.
C3_RanksIncrease ==
  (SequenceReturned /\ Len(ret.value) > 0) =>
    /\ \A i \in 1..(Len(ret.value) - 1) :
          ret.value[i].priority < ret.value[i + 1].priority
    /\ (ret.value[1].priority = 1) <=> (ret.value[1].action = "research")
    /\ (ret.value[1].priority # 1) =>
          (ret.value[1].priority = 2 /\ ret.value[1].action = "follow")

\* C3 witness: a sequence of follow and like that has no research step
C3_Witness ==
  /\ SequenceReturned
  /\ Len(ret.value) >= 2
  /\ ret.value[1].action = "follow"
  /\ ret.value[2].action = "like"

\* C4: the returned list is exactly research iff userLookup > 0 and worth
\* researching; then follow iff follow > 0, like > 0 and worth engaging, with
\* like after it iff the lead also has a recent post; then dmSend iff
\* dmSend > 0, highly qualified and at least two steps so far.  A lead with
\* follow quota but no like quota gets no follow step.
C4_ThreeStepReference ==
  SequenceReturned =>
    LET research == apiQuota.userLookup.remaining > 0 /\ isWorthResearching(lead)
        follow   == /\ apiQuota.follow.remaining > 0
                    /\ apiQuota.like.remaining > 0
                    /\ isWorthEngaging(lead, ret.at)
        like     == follow /\ Len(lead.recentTweets) >= 1
        dm       == /\ apiQuota.dmSend.remaining > 0
                    /\ isHighlyQualified(lead, ret.at)
                    /\ Bit(research) + Bit(follow) + Bit(like) >= 2
    IN  /\ ActionsOf(ret.value) =
             (IF research THEN <<"research">> ELSE <<>>)
             \o (IF follow THEN <<"follow">> ELSE <<>>)
             \o (IF like THEN <<"like">> ELSE <<>>)
             \o (IF dm THEN <<"dmSend">> ELSE <<>>)
        /\ \A i \in 1..Len(ret.value) :
              ret.value[i] \in {researchStep, followStep, likeStep, dmSendStep}
        /\ (apiQuota.like.remaining = 0) =>
              \A i \in 1..Len(ret.value) : ret.value[i].action # "follow"

\* C4 witness: follow quota, no like quota, a lead worth engaging
C4_Witness ==
  /\ SequenceReturned
  /\ apiQuota.follow.remaining > 0
  /\ apiQuota.like.remaining = 0
  /\ isWorthEngaging(lead, ret.at)
  /\ isWorthResearching(lead)
  /\ apiQuota.userLookup.remaining > 0

---------------------------------------------------------------------------
(* Properties of the three predicates, under SpecQual *)

\* the six criteria of isWorthEngaging as the claim lists them, at clock t
EngagingCriteriaMet(l, t) ==
    Bit(Len(l.recentTweets) >= 1)
  + Bit(\E i \in 1..Len(l.recentTweets) :
           \/ l.recentTweets[i].engagement.likes > 3
           \/ l.recentTweets[i].engagement.comments > 0)
  + Bit(Len(l.keywords) >= 1)
  + Bit(t - l.lastActivity < 7 * MsPerDay)
  + Bit(l.followerCount >= 100 /\ l.followerCount <= 50000)
  + Bit(l.followerCount > 0 /\
        LikesOf(l) * targetingCriteria.minEngagement.den
          >= targetingCriteria.minEngagement.num * l.followerCount)

\* C5: isWorthEngaging is true iff at least 3 of the 6 criteria hold (recent
\* post, a post with > 3 likes or > 0 comments, a keyword tag, activity less
\* than 7 days old, followers within [100, 50000], engagement rate at the
\* configured minimum); false with exactly 2, true with exactly 3.
C5_ThreeOfSix ==
  ret.op = "isWorthEngaging" =>
    /\ ret.value <=> (EngagingCriteriaMet(lead, ret.at) >= 3)
    /\ (EngagingCriteriaMet(lead, ret.at) = 2) => ~ret.value
    /\ (EngagingCriteriaMet(lead, ret.at) = 3) => ret.value

\* C5 witness: exactly 3 of the 6 criteria hold and the call returned true
C5_Witness ==
  /\ ret.op = "isWorthEngaging"
  /\ EngagingCriteriaMet(lead, ret.at) = 3
  /\ ret.value

\* C6: for a lead with followers > 0 the engagement-rate criterion holds in
\* isWorthEngaging exactly when likes * 1000 >= 5 * followers (0.5%) and in
\* isHighlyQualified exactly when likes * 100 >= followers (1.0%).
C6_RateInPercent ==
  (ret.op \in {"isWorthEngaging", "isHighlyQualified"} /\ lead.followerCount > 0) =>
    /\ engagementRateAtLeast(lead, targetingCriteria.minEngagement)
         <=> (LikesOf(lead) * 1000 >= 5 * lead.followerCount)
    /\ engagementRateAtLeast(lead, highEngagement)
         <=> (LikesOf(lead) * 100 >= lead.followerCount)

\* the five criteria of isHighlyQualified as the claim lists them, at clock t
StrictCriteriaMet(l, t) ==
    Bit(l.hasEngagedWithUs)
  + Bit(Len(l.mutualConnections) >= 1)
  + Bit(l.followerCount > 0 /\
        LikesOf(l) * highEngagement.den >= highEngagement.num * l.followerCount)
  + Bit(t - l.lastActivity < 3 * MsPerDay)
  + Bit(\E i \in 1..Len(l.keywords) :
           ContainsAny(l.keywords[i], <<S_AI, S_automation, S_SaaS>>))

\* C7: isHighlyQualified is true iff at least 2 of the 5 criteria hold (has
\* engaged with us, a mutual connection, engagement rate at the higher
\* minimum, activity less than 3 days old, a keyword tag matching AI,
\* automation or SaaS); true with exactly 2, false with exactly 1.
C7_TwoOfFive ==
  ret.op = "isHighlyQualified" =>
    /\ ret.value <=> (StrictCriteriaMet(lead, ret.at) >= 2)
    /\ (StrictCriteriaMet(lead, ret.at) = 2) => ret.value
    /\ (StrictCriteriaMet(lead, ret.at) = 1) => ~ret.value

\* C7 witness: exactly 2 of the 5 criteria hold and the call returned true
C7_Witness ==
  /\ ret.op = "isHighlyQualified"
  /\ StrictCriteriaMet(lead, ret.at) = 2
  /\ ret.value

\* the lead has a non-empty handle
HasHandle(l) == Len(l.username) > 0

\* a spam marker occurs in the handle or the bio
SpamInText(l) ==
  \/ ContainsAny(l.username, targetingCriteria.excludeKeywords)
  \/ Has(l, "bio") /\ ContainsAny(l.bio, targetingCriteria.excludeKeywords)

\* a spam marker occurs in a keyword tag
SpamInKeywords(l) ==
  \E i \in 1..Len(l.keywords) :
     ContainsAny(l.keywords[i], targetingCriteria.excludeKeywords)

\* a keyword tag matches the relevant-topic list
RelevantTopic(l) ==
  \E i \in 1..Len(l.keywords) :
     ContainsAny(l.keywords[i], targetingCriteria.relevantKeywords)

\* C8 as stated: isWorthResearching is true iff the handle is non-empty, no
\* keyword tag and no text field (handle, bio) contains a spam marker, and a
\* keyword tag matches the relevant-topic list.
C8_SpamScreensKeywords ==
  ret.op = "isWorthResearching" =>
    (ret.value <=>
       /\ HasHandle(lead)
       /\ ~SpamInText(lead) /\ ~SpamInKeywords(lead)
       /\ RelevantTopic(lead))

\* C8 amended: isWorthResearching is true iff the handle is non-empty, neither
\* the handle nor the bio contains a spam marker, and a keyword tag matches
\* the relevant-topic list; keyword tags are not screened for spam markers.
C8_SpamScreensText ==
  ret.op = "isWorthResearching" =>
    (ret.value <=> (HasHandle(lead) /\ ~SpamInText(lead) /\ RelevantTopic(lead)))

\* C8 witness: a keyword tag holds a spam marker and the call returned true
C8_Witness ==
  /\ ret.op = "isWorthResearching"
  /\ SpamInKeywords(lead)
  /\ ret.value

---------------------------------------------------------------------------
(* The Alex Bot scenario and repeated calls, under Spec *)

\* C9 as stated: for alex_bot_follower isWorthResearching is false and
\* getOutreachSequence returns the empty sequence for every quota snapshot.
C9_AlexGetsNothing ==
  (SequenceReturned /\ lead = alexBot) =>
    (~isWorthResearching(lead) /\ ret.value = <<>>)

\* C9 amended: for alex_bot_follower isWorthResearching is false and the
\* sequence never holds research or dmSend; the lead is worth engaging, so the
\* sequence is [follow, like] when the follow and like quotas are both
\* positive and empty otherwise.
C9_AlexIsEngaged ==
  (SequenceReturned /\ lead = alexBot) =>
    /\ ~isWorthResearching(lead)
    /\ ret.value =
         IF apiQuota.follow.remaining > 0 /\ apiQuota.like.remaining > 0
         THEN <<followStep, likeStep>> ELSE <<>>

\* C9 witness: Alex Bot, every quota positive, the sequence is follow, like
C9_Witness ==
  /\ SequenceReturned
  /\ lead = alexBot
  /\ \A k \in QuotaKinds : apiQuota[k].remaining > 0
  /\ ActionsOf(ret.value) = <<"follow", "like">>

\* two calls of getOutreachSequence have returned, one after the other
CalledTwice == SequenceReturned /\ prev.op = "getOutreachSequence"

---------------------------------------------------------------------------
(* Independence of the predicates and absent fields, under SpecAbsent *)

\* the lead of the claim: has engaged with us, has mutual connections, and
\* has no posts, keywords, follower count or activity
independentLead ==
  [hasEngagedWithUs |-> TRUE, mutualConnections |-> <<"john_doe", "jane_smith">>]

\* C11: the predicates are evaluated independently: for a lead that has
\* engaged with us and has a mutual connection but no posts, keywords,
\* follower count or activity, isHighlyQualified is true while isWorthEngaging
\* is false; neither result is short-circuited by the other predicate.
C11_QualifiedYetNotEngaging ==
  (lead = independentLead) =>
    /\ (ret.op = "isHighlyQualified") => ret.value
    /\ (ret.op = "isWorthEngaging") => ~ret.value
    /\ (ret.op = "getOutreachSequence") => ret.value = <<>>

\* C11 witness: isHighlyQualified returned true for a lead not worth engaging
C11_Witness ==
  /\ lead = independentLead
  /\ ret.op = "isHighlyQualified"
  /\ ret.value
  /\ ~isWorthEngaging(lead, ret.at)

\* a call of one of the three predicates has returned
PredicateReturned ==
  ret.op \in {"isWorthResearching", "isWorthEngaging", "isHighlyQualified"}

\* field f is present and P holds of it
Present(l, f, P(_)) == IF Has(l, f) THEN P(l[f]) ELSE FALSE

\* a post with more than 3 likes or more than 0 comments, absent counts failing
PostHasEngagement(post) ==
  /\ Has(post, "engagement")
  /\ \/ Has(post.engagement, "likes") /\ post.engagement.likes > 3
     \/ Has(post.engagement, "comments") /\ post.engagement.comments > 0

\* the like count of a post, 0 when absent
PostLikes(post) ==
  IF Has(post, "engagement") /\ Has(post.engagement, "likes")
  THEN post.engagement.likes ELSE 0

RECURSIVE SumLikes(_)
SumLikes(posts) ==
  IF posts = <<>> THEN 0 ELSE PostLikes(posts[1]) + SumLikes(Tail(posts))

\* the criteria of isWorthEngaging that hold, an absent field failing the
\* criteria that read it
EngagingCriteriaPresent(l, t) ==
  LET HasPost(tw) == Len(tw) >= 1
      GoodPost(tw) == \E i \in 1..Len(tw) : PostHasEngagement(tw[i])
      HasTag(kw) == Len(kw) >= 1
      Recent(a) == t - a < 7 * MsPerDay
      InBand(n) == n >= 100 /\ n <= 50000
      GoodRate(n) ==
        /\ n > 0
        /\ Has(l, "recentTweets")
        /\ SumLikes(l.recentTweets) * targetingCriteria.minEngagement.den
             >= targetingCriteria.minEngagement.num * n
  IN    Bit(Present(l, "recentTweets", HasPost))
      + Bit(Present(l, "recentTweets", GoodPost))
      + Bit(Present(l, "keywords", HasTag))
      + Bit(Present(l, "lastActivity", Recent))
      + Bit(Present(l, "followerCount", InBand))
      + Bit(Present(l, "followerCount", GoodRate))

\* the criteria of isHighlyQualified that hold, an absent field failing the
\* criteria that read it
StrictCriteriaPresent(l, t) ==
  LET Engaged(x) == x
      HasMutual(mc) == Len(mc) >= 1
      HighRate(n) ==
        /\ n > 0
        /\ Has(l, "recentTweets")
        /\ SumLikes(l.recentTweets) * highEngagement.den >= highEngagement.num * n
      VeryRecent(a) == t - a < 3 * MsPerDay
      Perfect(kw) ==
        \E i \in 1..Len(kw) : ContainsAny(kw[i], <<S_AI, S_automation, S_SaaS>>)
  IN    Bit(Present(l, "hasEngagedWithUs", Engaged))
      + Bit(Present(l, "mutualConnections", HasMutual))
      + Bit(Present(l, "followerCount", HighRate))
      + Bit(Present(l, "lastActivity", VeryRecent))
      + Bit(Present(l, "keywords", Perfect))

\* C12 as stated: for a lead lacking any subset of the fields, every call
\* returns a result, and an absent field makes the criterion that reads it
\* false; so isWorthResearching, which needs all of its criteria, is false
\* when the handle, the bio or the keywords are absent.
C12_AbsentFieldFailsItsCriterion ==
  /\ PredicateReturned => ret.value \in BOOLEAN
  /\ (ret.op = "isWorthEngaging") =>
        (ret.value <=> EngagingCriteriaPresent(lead, ret.at) >= 3)
  /\ (ret.op = "isHighlyQualified") =>
        (ret.value <=> StrictCriteriaPresent(lead, ret.at) >= 2)
  /\ (ret.op = "isWorthResearching"
        /\ ~(Has(lead, "username") /\ Has(lead, "bio") /\ Has(lead, "keywords")))
        => ~ret.value

\* C12 amended: every call returns a result without raising; an absent field
\* fails each criterion of isWorthEngaging and isHighlyQualified that reads
\* it, and an absent handle or keyword list fails isWorthResearching; an
\* absent handle or bio passes the spam screen, so a lead without a bio can be
\* worth researching.
C12_AbsentFieldsTolerated ==
  LET Named(u) == Len(u) > 0
      Spam(x) == ContainsAny(x, targetingCriteria.excludeKeywords)
      Relevant(kw) ==
        \E i \in 1..Len(kw) : ContainsAny(kw[i], targetingCriteria.relevantKeywords)
  IN
  /\ PredicateReturned => ret.value \in BOOLEAN
  /\ (ret.op = "isWorthEngaging") =>
        (ret.value <=> EngagingCriteriaPresent(lead, ret.at) >= 3)
  /\ (ret.op = "isHighlyQualified") =>
        (ret.value <=> StrictCriteriaPresent(lead, ret.at) >= 2)
  /\ (ret.op = "isWorthResearching") =>
        (ret.value <=>
           /\ Present(lead, "username", Named)
           /\ ~Present(lead, "username", Spam)
           /\ ~Present(lead, "bio", Spam)
           /\ Present(lead, "keywords", Relevant))
  /\ (ret.op = "getOutreachSequence") =>
        /\ Len(ret.value) <= 4
        /\ \A i \in 1..Len(ret.value) :
              ret.value[i] \in {researchStep, followStep, likeStep, dmSendStep}
        /\ (\E i \in 1..Len(ret.value) : ret.value[i].action = "like")
              => Has(lead, "recentTweets")

\* C12 witness: a lead without bio, posts' counts, follower count and activity
\* for which isWorthResearching returned true
C12_Witness ==
  /\ ret.op = "isWorthResearching"
  /\ ~Has(lead, "bio")
  /\ ~Has(lead, "followerCount")
  /\ ~Has(lead, "lastActivity")
  /\ ret.value

---------------------------------------------------------------------------
(* Properties of the renderers, under SpecRender *)

\* a renderer has returned for a template id of its catalog
RenderedKnown ==
  \/ ret.op = "generateDMMessage" /\ ret.id \in DOMAIN dmTemplates
  \/ ret.op = "generateEngagementMessage" /\ ret.id \in DOMAIN engagementTemplates

\* a renderer has returned for a template id outside its catalog
RenderedUnknown ==
  \/ ret.op = "generateDMMessage" /\ ret.id \notin DOMAIN dmTemplates
  \/ ret.op = "generateEngagementMessage" /\ ret.id \notin DOMAIN engagementTemplates

\* the template of the last call
TemplateOf(r) ==
  IF r.op = "generateDMMessage" THEN dmTemplates[r.id] ELSE engagementTemplates[r.id]

\* C13: the initial DM rendered for a lead with no recent posts and no
\* context post has 'tech trends' in place of {{threadTopic}} and 'your
\* perspective' in place of {{specificInsight}}, and neither placeholder.
C13_FallbacksWithoutPost ==
  (/\ ret.op = "generateDMMessage"
   /\ ret.id = "initial"
   /\ ~NonEmpty(lead, "recentTweets")
   /\ ret.tweetData = noTweetData) =>
    /\ ret.value.kind = "string"
    /\ includes(ret.value.value, S_tech_trends)
    /\ includes(ret.value.value, S_your_perspective)
    /\ ~includes(ret.value.value, P_threadTopic)
    /\ ~includes(ret.value.value, P_specificInsight)

\* the placeholders generateDMMessage has no value or no rule for
UnfilledDM(l, tweetData) ==
  (IF NonEmpty(l, "username") THEN {} ELSE {P_username})
  \cup (IF NonEmpty(tweetData, "text") THEN {} ELSE {P_threadTopic, P_specificInsight})
  \cup (IF NonEmpty(l, "keywords") THEN {} ELSE {P_topic, P_field})
  \cup {P_recentTopic, P_insight, P_tweetText, P_comment}

\* the placeholders generateEngagementMessage has no value or no rule for
UnfilledEngagement(l, tweetData) ==
  (IF NonEmpty(l, "keywords") THEN {} ELSE {P_topic})
  \cup (IF NonEmpty(tweetData, "text") THEN {} ELSE {P_insight})
  \cup (IF NonEmpty(l, "industry") THEN {} ELSE {P_field})
  \cup {P_username, P_tweetText, P_comment, P_threadTopic, P_specificInsight,
        P_solution, P_value, P_recentTopic}

\* C14: for a known template a renderer returns a message without raising,
\* and every placeholder of the template it has no value or no rule for is
\* left in the message as literal text.
C14_UnmatchedLeftLiteral ==
  RenderedKnown =>
    /\ ret.value.kind = "string"
    /\ \A P \in (IF ret.op = "generateDMMessage"
                 THEN UnfilledDM(lead, ret.tweetData)
                 ELSE UnfilledEngagement(lead, ret.tweetData)) :
          includes(TemplateOf(ret), P) => includes(ret.value.value, P)

\* C14 witness: the initial DM rendered without handle and context post,
\* with {{username}} and {{threadTopic}} left in the message
C14_Witness ==
  /\ ret.op = "generateDMMessage"
  /\ ret.id = "initial"
  /\ ret.tweetData = noTweetData
  /\ ~Has(lead, "username")
  /\ ret.value.kind = "string"
  /\ includes(ret.value.value, P_username)
  /\ includes(ret.value.value, P_threadTopic)
  /\ includes(ret.value.value, S_AI_automation_tools)

\* C15 as stated: a template id outside the catalog yields an explicit
\* 'unknown template' failure result, never a string.
C15_UnknownTemplateFailsLoudly ==
  RenderedUnknown => ret.value.kind = "unknown template"

\* C15 amended: a template id outside the catalog yields null, without an
\* error and without an 'unknown template' message; null differs from every
\* rendered message and no string, empty or partial, is returned.  An id
\* that names an inherited Object property (constructor, toString) finds a
\* function instead: generateDMMessage raises a TypeError, and
\* generateEngagementMessage raises one or returns the function.
C15_UnknownTemplateIsNull ==
  RenderedUnknown =>
    /\ ret.value.kind # "string"
    /\ (ret.id \notin ObjectPrototypeKeys) => ret.value.kind = "null"
    /\ (ret.id \in ObjectPrototypeKeys /\ ret.op = "generateDMMessage")
          => ret.value.kind = "TypeError"
    /\ (ret.id \in ObjectPrototypeKeys /\ ret.op = "generateEngagementMessage")
          => ret.value.kind \in {"TypeError", "function"}

\* C15 witness: generateDMMessage returned null for the id 'nope'
C15_Witness ==
  /\ ret.op = "generateDMMessage"
  /\ ret.id = "nope"
  /\ ret.value.kind = "null"

\* value stands in message where placeholder P stands in the template
FilledWith(template, message, P, value) ==
  LET i == indexOf(template, P) IN
  /\ ~includes(message, P)
  /\ includes(message, SubSeq(template, i - 3, i - 1) \o value)

\* C16 as stated: in every rendered message {{topic}} and {{field}} are
\* replaced by the lead's first keyword tag when it has one and by a fixed
\* fallback otherwise, in the engagement and the DM templates alike.
C16_TopicAndFieldFromKeyword ==
  RenderedKnown =>
    \A P \in {P_topic, P_field} :
       includes(TemplateOf(ret), P) =>
         /\ ret.value.kind = "string"
         /\ ~includes(ret.value.value, P)
         /\ NonEmpty(lead, "keywords")
               => FilledWith(TemplateOf(ret), ret.value.value, P, lead.keywords[1])

\* C16 amended: {{topic}} is replaced by the lead's first keyword tag when
\* it has one and is left as literal text otherwise (there is no fallback);
\* {{field}}, which only the reply engagement template holds, is replaced by
\* lead.industry when present and left as literal text otherwise.
C16_TopicFromKeywordFieldFromIndustry ==
  RenderedKnown =>
    /\ ret.value.kind = "string"
    /\ includes(TemplateOf(ret), P_topic) =>
         IF NonEmpty(lead, "keywords")
         THEN FilledWith(TemplateOf(ret), ret.value.value, P_topic, lead.keywords[1])
         ELSE includes(ret.value.value, P_topic)
    /\ includes(TemplateOf(ret), P_field) =>
         /\ ret.op = "generateEngagementMessage"
         /\ IF NonEmpty(lead, "industry")
            THEN FilledWith(TemplateOf(ret), ret.value.value, P_field, lead.industry)
            ELSE includes(ret.value.value, P_field)

\* C16 witness: the reply template rendered for a lead with keywords and an
\* industry
C16_Witness ==
  /\ ret.op = "generateEngagementMessage"
  /\ ret.id = "reply"
  /\ NonEmpty(lead, "keywords")
  /\ NonEmpty(lead, "industry")
  /\ ret.value.kind = "string"
  /\ ~includes(ret.value.value, P_field)

---------------------------------------------------------------------------
(* Properties of extractInsight, under SpecInsight *)

\* C17: extractInsight takes the first fragment between dots whose trimmed
\* length exceeds 10, trims it, cuts it to at most 50 characters and appends
\* an ellipsis, so the result has at most 53 characters; without such a
\* fragment it returns 'your perspective'.
C17_FirstSentenceCut ==
  (ret.op = "extractInsight") =>
    LET g == ret.text
        Cut(n) == IF n > 50 THEN 50 ELSE n
    IN  /\ Len(ret.value) <= 53
        /\ ret.value =
             IF g.first > 10 THEN Repeat("a", Cut(g.first)) \o <<".", ".", ".">>
             ELSE IF g.second > 10 THEN Repeat("b", Cut(g.second)) \o <<".", ".", ".">>
             ELSE S_your_perspective

\* C17 witness: a padded first fragment of more than 50 letters, cut to 53
C17_Witness ==
  /\ ret.op = "extractInsight"
  /\ ret.text.first > 50
  /\ ret.text.padLeft > 0
  /\ Len(ret.value) = 53

---------------------------------------------------------------------------
(* Properties of the Twitter DM client, under SpecClient and SpecConcurrent *)

\* the last call was a send call made on the current calendar day
SendReturnedToday ==
  /\ ret.op \in {"sendDirectMessage", "sendFollowUpMessage"}
  /\ toDateString(ret.at) = toDateString(now)

\* C18: whenever the calendar day has changed since the counters were last
\* used, getRemainingQuota reports the full daily limit for messages and for
\* every action kind.
C18_FullQuotaOnNewDay ==
  (/\ ret.op = "getRemainingQuota"
   /\ ret.at = now
   /\ Has(client, "lastResetDate")
   /\ client.lastResetDate # toDateString(now)) =>
    /\ ret.value.messages = dailyLimits.messages
    /\ \A action \in DOMAIN freeTierLimits :
          ret.value[action].remaining = freeTierLimits[action]

\* C19 as stated: at most 5 direct messages are posted within a calendar
\* day, and the 6th and every later send call of the day fails with 'Daily
\* message limit reached'.
C19_SixthCallFails ==
  /\ day.posted <= dailyLimits.messages
  /\ (SendReturnedToday /\ day.issued > dailyLimits.messages)
        => ret.value = Thrown("Daily message limit reached")

\* C19 amended: at most 5 direct messages are posted within a calendar day,
\* and once 5 have been posted every later send call of the day fails
\* without posting: sendDirectMessage with 'Daily message limit reached',
\* sendFollowUpMessage with that or 'Conversation message limit reached'.
C19_NoPostAfterFive ==
  [][ /\ day'.posted <= dailyLimits.messages
      /\ (day.posted = dailyLimits.messages /\ day'.issued = day.issued + 1) =>
            /\ day'.posted = day.posted
            /\ ret'.value.kind = "thrown"
            /\ ret'.value.message \in
                 IF ret'.op = "sendDirectMessage"
                 THEN {"Daily message limit reached"}
                 ELSE {"Daily message limit reached",
                       "Conversation message limit reached"} ]_vars

\* C19 witness: the 7th call of a day fails on the limit after 5 messages
\* were posted by the 6 calls before it
C19_Witness ==
  /\ SendReturnedToday
  /\ day.issued = 7
  /\ day.posted = dailyLimits.messages
  /\ ret.value = Thrown("Daily message limit reached")

\* the calls that have come back from their POST
Done == {p \in DOMAIN calls : calls[p] = "done"}

\* every call that came back has been counted
NoIncrementLost == client.messagesSent = Cardinality(Done)

\* C20: with several sendDirectMessage calls in flight at once, no more than
\* 5 messages are posted in one calendar day and no increment of messagesSent
\* is lost.
C20_LimitHoldsForCallsInFlight ==
  /\ day.posted <= dailyLimits.messages
  /\ NoIncrementLost

---------------------------------------------------------------------------
(* Properties of a campaign run, under SpecCampaign *)

\* the number of calls of a kind the campaign has made, over all leads
Performed(kind) ==
  LET RECURSIVE sum(_)
      sum(ids) == IF ids = {} THEN 0
                  ELSE LET id == CHOOSE x \in ids : TRUE
                       IN  effects[id][kind] + sum(ids \ {id})
  IN  sum(DOMAIN effects)

\* the last call returned from processLead
LeadProcessed == ret.op = "processLead"

\* the outcome of a step of the last processed lead, "none" if it had no such step
OutcomeOf(action) ==
  IF \E i \in 1..Len(ret.steps) : ret.steps[i].action = action
  THEN LET i == CHOOSE j \in 1..Len(ret.steps) : ret.steps[j].action = action
       IN  ret.steps[i].outcome
  ELSE "none"

\* C21: after the campaign's Twitter outreach the follow, like and userLookup
\* entries of getRemainingQuota have gone down by the number of follows, likes
\* and lookups performed that day, so no more than 15 follows, 25 likes and 30
\* lookups can be made in a day.
C21_QuotaCountsActions ==
  campaign.status # "none" =>
    LET quota == getRemainingQuota(client, now) IN
    /\ quota.follow.remaining = freeTierLimits.follow - Performed("follow")
    /\ quota.like.remaining = freeTierLimits.like - Performed("like")
    /\ quota.userLookup.remaining = freeTierLimits.userLookup - Performed("research")

---------------------------------------------------------------------------
(* Properties of the LinkedIn client, under SpecLinkedIn *)

\* C22: after any sequence of sendConnectionRequest, sendDirectMessage and
\* sendFollowUpMessage calls of one day the LinkedIn client has requested at
\* most 100 connections and sent at most 200 messages.
C22_LinkedInLimitsHold ==
  /\ linkedin.connectionsRequested <= linkedinDailyLimits.connectionRequests
  /\ linkedin.messagesSent <= linkedinDailyLimits.messages

\* the lead the last processLead call was made for
ProcessedLead == CHOOSE l \in CampaignLeads : l.id = ret.leadId

\* C23: a campaign sends a Twitter direct message only to a lead that meets
\* at least 4 of the 7 criteria of isHighlyQualifiedForDM.
C23_DmOnlyToQualifiedLead ==
  (LeadProcessed /\ OutcomeOf("dmSend") = "done") =>
     isHighlyQualifiedForDM(ProcessedLead, ProcessedLead, ret.at)

\* C24: no lead receives more than one connection request or more than one
\* initial direct message, also when the lead list of a campaign names the
\* same person twice.
C24_NoRepeatedOutreach ==
  \A id \in DOMAIN effects :
     /\ effects[id].connection_request <= 1
     /\ effects[id].direct_message <= 1
     /\ effects[id].dmSend <= 1

\* C25: in sendTwitterOutreach a direct message is sent to a lead only after
\* the follow of that lead has succeeded in the same run; when the follow
\* fails no DM is sent.
C25_DmOnlyAfterFollow ==
  (LeadProcessed /\ OutcomeOf("dmSend") = "done") => OutcomeOf("follow") = "done"

---------------------------------------------------------------------------
(* More properties of getOutreachSequence, under Spec *)

\* C26: a returned sequence that holds dmSend holds follow before it, so the
\* lead is worth engaging and the snapshot has follow, like and dmSend quota
\* left; a like step comes only directly after a follow step; no action occurs
\* twice; the sequence has at most 4 steps.
C26_DmFollowsFollow ==
  SequenceReturned =>
    LET acts == ActionsOf(ret.value) IN
    /\ \A i \in 1..Len(acts) :
          acts[i] = "dmSend" =>
            /\ \E j \in 1..(i - 1) : acts[j] = "follow"
            /\ isWorthEngaging(lead, ret.at)
            /\ apiQuota.follow.remaining > 0
            /\ apiQuota.like.remaining > 0
            /\ apiQuota.dmSend.remaining > 0
    /\ \A i \in 1..Len(acts) :
          acts[i] = "like" => i > 1 /\ acts[i - 1] = "follow"
    /\ \A i, j \in 1..Len(acts) : acts[i] = acts[j] => i = j
    /\ Len(acts) <= 4

\* C26 witness: a DM step right after the follow step, for a lead without
\* posts
C26_Witness ==
  /\ SequenceReturned
  /\ ActionsOf(ret.value) = <<"research", "follow", "dmSend">>
  /\ ~NonEmpty(lead, "recentTweets")

---------------------------------------------------------------------------
(* More properties of a campaign run, under SpecCampaign *)

\* a step of processLeads that has processed one more lead
LeadStep ==
  /\ campaign.status = "active"
  /\ campaign'.status = "active"
  /\ campaign'.processed = campaign.processed + 1

\* C27: for a Twitter lead that is not worth engaging the outreach returns a
\* 'skipped' result, reads no quota and makes no call to the Twitter client,
\* whether or not the lead is worth researching or highly qualified.
C27_UnengagingLeadUntouched ==
  [][ (/\ LeadStep
       /\ ProcessedLead'.platform = "twitter"
       /\ ~isWorthEngaging(ProcessedLead', now)) =>
        /\ ret'.value = <<skippedResult(ProcessedLead', "low_engagement_potential")>>
        /\ ~ret'.quotaRead
        /\ ret'.steps = <<>>
        /\ client' = client
        /\ outreachLog' = outreachLog
        /\ day' = day
        /\ effects' = effects ]_vars

\* C27 witness: a lead that is worth researching and highly qualified but not
\* worth engaging has been skipped
C27_Witness ==
  /\ LeadProcessed
  /\ ret.leadId = "t3"
  /\ isWorthResearching(leadT3)
  /\ isHighlyQualified(leadT3, ret.at)
  /\ ~isWorthEngaging(leadT3, ret.at)
  /\ ret.value[1].action = <<"skipped">>

\* C28: a campaign never processes more leads than the dailyLimit of its
\* configuration, a dailyLimit of 0 included.
C28_WithinConfiguredLimit ==
  (campaign.status # "none" /\ Has(campaign.config, "dailyLimit")) =>
     campaign.processed <= campaign.config.dailyLimit

---------------------------------------------------------------------------
(* Termination of a campaign run, under SpecCampaignLive *)

\* the number of results of the campaign with success true
Successes ==
  Cardinality({i \in 1..Len(campaign.results) :
                 /\ Has(campaign.results[i], "success")
                 /\ campaign.results[i].success})

\* the number of leads the loop of processLeads gets to
LeadsDue ==
  IF Len(campaign.leads) < campaign.settings.dailyLimit
  THEN Len(campaign.leads) ELSE campaign.settings.dailyLimit

\* the campaign has ended as the call of startCampaign leaves it
CampaignCompleted ==
  /\ campaign.status = "completed"
  /\ Has(campaign, "completedAt")
  /\ campaign.processed = LeadsDue
  /\ Len(campaign.results) = campaign.processed
  /\ campaign.stats.sent = Successes

\* C29: a started campaign always ends with status 'completed' and completedAt
\* set, also when outreach fails for every lead: each lead up to the daily
\* limit has its result, successful or not, and stats.sent is the number of
\* results with success true.
C29_CampaignCompletes ==
  (campaign.status = "active") ~> CampaignCompleted

\* C29 witness: a completed campaign of two leads, both on LinkedIn and
\* Twitter unsuccessful
C29_Witness ==
  /\ CampaignCompleted
  /\ Len(campaign.results) = 2
  /\ campaign.results[1].platform = "linkedin"
  /\ campaign.results[2].platform = "twitter"
  /\ \A i \in 1..2 : Has(campaign.results[i], "success") /\ ~campaign.results[i].success
  /\ campaign.stats.sent = 0

---------------------------------------------------------------------------
(* Properties of checkRateLimit, under SpecRateLimit *)

\* a step of checkRateLimit
RateLimitChecked == ret'.op = "checkRateLimit" /\ now' = now

\* the count of an action for the calendar day of t, as checkRateLimit sees
\* it after its reset of a new day
CountToday(c, action, t) ==
  IF Has(c, "lastResetDate") /\ c.lastResetDate = toDateString(t)
     /\ action \in DOMAIN c.apiCallCount
  THEN c.apiCallCount[action] ELSE 0

\* the count of the action has reached its free tier limit
LimitReached(c, action, t) ==
  /\ action \in DOMAIN freeTierLimits
  /\ CountToday(c, action, t) >= freeTierLimits[action]

\* every count is between 0 and its limit, and getRemainingQuota reports
\* remaining = limit - used >= 0 for every action
CountsWithinLimits(c, t) ==
  \A action \in DOMAIN freeTierLimits :
     /\ c.apiCallCount[action] \in 0..freeTierLimits[action]
     /\ LET q == getRemainingQuota(c, t)[action] IN
        /\ q.used = c.apiCallCount[action]
        /\ q.remaining = freeTierLimits[action] - q.used
        /\ q.remaining >= 0

\* C30 as stated: for any action name, the counts stay within 0..limit,
\* checkRateLimit(a) returns false exactly when the count for a has reached
\* its limit and then leaves the count unchanged, and getRemainingQuota
\* reports remaining = limit - used >= 0.
C30_FalseExactlyAtLimit ==
  [][ RateLimitChecked =>
        /\ CountsWithinLimits(client', now)
        /\ ret'.value = ~LimitReached(client, ret'.action, now)
        /\ ~ret'.value =>
              CountToday(client', ret'.action, now) = CountToday(client, ret'.action, now)
    ]_vars

\* C30 amended: the same for every action name that is not inherited from
\* Object.prototype; for an inherited name such as 'constructor' the call
\* returns false and changes no count, whatever the counts are.
C30_FalseAtLimitOrInheritedName ==
  [][ RateLimitChecked =>
        /\ CountsWithinLimits(client', now)
        /\ ret'.value = ~(\/ LimitReached(client, ret'.action, now)
                          \/ ret'.action \in ObjectPrototypeKeys)
        /\ ~ret'.value =>
              \A action \in DOMAIN freeTierLimits :
                 CountToday(client', action, now) = CountToday(client, action, now)
    ]_vars

\* C30 witness: a call for 'constructor' is refused on the second day while
\* the follow count of that day is 1 of 15 and no count has reached its limit
C30_Witness ==
  /\ ret.op = "checkRateLimit"
  /\ ret.action = "constructor"
  /\ ~ret.value
  /\ ret.at >= Now0 + MsPerDay
  /\ client.apiCallCount.follow = 1
  /\ \A action \in DOMAIN freeTierLimits : ~LimitReached(client, action, ret.at)

====
